---- MODULE Spec2Model ----
(***************************************************************************)
(* A model of autofw's resilient action engine: the retry/backoff executor  *)
(* (retry.py), the validated state transitions of the Topps workflow        *)
(* (examples/topps.py) and the mailbox poller behind its concurrency gate   *)
(* (email/gmail.py).                                                        *)
(*                                                                          *)
(* Each component has its own variables, its own initial predicate and its  *)
(* own next-state relation; a specification runs one component (with the    *)
(* components it calls) and leaves the others idle.                         *)
(*                                                                          *)
(* Durations are whole seconds.  random.uniform draws are drawn from the    *)
(* integers of the interval.                                                *)
(***************************************************************************)
EXTENDS Integers, Sequences, FiniteSets, TLC

(***************************************************************************)
(* Bounds of the model.                                                     *)
(***************************************************************************)
\* largest RetryConfig.max_retries tried
MaxRetriesTried == 3
\* largest RetryConfig.base_delay tried
MaxBaseDelay == 2
\* largest RetryConfig.max_delay tried
MaxDelayCap == 5

(***************************************************************************)
(* The state                                                                *)
(***************************************************************************)
\* retry.py: one retry() call
VARIABLES
    r_cfg,          \* cfg: the RetryConfig, with whether on_retry was given
    r_pc,           \* where retry() is: "try", "sleep", "returned", "raised"
    r_attempt,      \* attempt, the loop variable of retry()
    r_last_error,   \* last_error; 0 is None, n the error of the n-th invocation
    r_result,       \* what retry() returned or raised
    r_trace         \* the calls, observer reports and sleeps made, in order

\* examples/topps.py: the generator, its tab and one _transition_to call
VARIABLES
    state,          \* self.state of the ToppsAccountGenerator
    tt_pc,          \* where _transition_to is
    tt_target,      \* target_state
    tt_max_retries, \* max_retries
    tt_attempt,     \* attempt, the loop variable of _transition_to
    tt_result,      \* what _transition_to returned: "none" until it returns
    tt_state0,      \* self.state when _transition_to was called
    tt_trace        \* the action calls, validations, assignments (with the
                    \* location that was validated) and cooldowns

\* email/gmail.py: the mailbox, the client's gate, and per task p its
\* _fetch_links, get_existing_links and wait_for_* calls
VARIABLES
    mailbox,        \* the items of the matching messages, oldest first
    max_connections, \* self.config.max_connections
    semaphore,      \* the permits self._semaphore has left
    f_pc,           \* f_pc[p]: where p's _fetch_links call is
    f_limit,        \* f_limit[p]: its limit argument
    f_ret,          \* f_ret[p]: what it returned or raised
    th,             \* th[p]: the worker thread of p's fetch
    orphans,        \* threads whose fetch timed out: connecting, session open
    g_pc,           \* g_pc[p]: where p's get_existing_links call is
    g_ret,          \* g_ret[p]: what it returned or raised
    w_pc,           \* w_pc[p]: where p's wait_for_* call is
    w_args,         \* w_args[p]: the variant called, timeout, poll_interval
    w_existing,     \* w_existing[p]: existing_links (None: not given)
    w_elapsed,      \* w_elapsed[p]: elapsed
    w_result,       \* w_result[p]: what wait_for_* returned or raised
    stopwatch,      \* stopwatch[p]: seconds since p's call; -1: not timed
    w_hist          \* w_hist[p]: what p's wait_for slept and was given, when recorded

\* examples/topps.py: one create_account call, made by task 1
VARIABLES
    a_pc,           \* where create_account is
    a_existing,     \* existing_links
    a_verify_link,  \* verify_link; "" before wait_for_link returned one
    a_ret,          \* the (success, message) returned
    a_before,       \* the links the mailbox held when the snapshot was requested
    a_shot,         \* what became of the screenshot of the except clause
    cf_pc,          \* where _verify_cf_with_retry is
    cf_attempt,     \* attempt, its loop variable
    cf_result       \* what it returned

\* examples/run_topps_concurrent.py: one TileManager and the sessions using it
VARIABLES
    tm_max_tiles,   \* self.max_tiles
    tm_available,   \* self._available
    tm_released,    \* the slots released since the last acquire, in order
    s_slot          \* s_slot[s]: the slot session s acquired and holds; -1: none

\* examples/run_topps_concurrent.py: main's session semaphore and its
\* create_single_account tasks, one per session
VARIABLES
    k_max,          \* max_concurrent
    k_sem,          \* the permits `semaphore` has left
    k_pc,           \* k_pc[s]: where task s is in create_single_account
    k_result,       \* k_result[s]: the AccountResult it returns; "none" before
    k_fetches,      \* k_fetches[s]: the mailbox fetches its create_account has
                    \* made so far; 0 outside create_account
    k_gathered      \* whether asyncio.gather gave main the results

\* examples/run_topps_concurrent.py: the grid of a TileManager
VARIABLES
    tm_columns,         \* self.columns
    tm_rows,            \* self.rows
    tm_window_width,    \* self.window_width
    tm_window_height,   \* self.window_height
    p_args,             \* the columns, screen_width, screen_height it was built with
    p_ret               \* p_ret[slot]: what get_position(slot) returned; NoPosition before

\* delays.py: one call of random_delay
VARIABLES
    d_mode,         \* mode
    d_profile,      \* the DelayProfile p
    d_pc,           \* "idle", "called", "sleeping", "done"
    d_extra,        \* what was added to max_d; 0 when nothing was
    d_slept         \* the argument of asyncio.sleep, as a fraction num/den

\* typing.py: one call of human_type
VARIABLES
    h_text,             \* text
    h_speed_multiplier, \* speed_multiplier
    h_pc,               \* "idle", "send", "sleeping", "done", "raised"
    h_i,                \* the index i of the loop, from 0
    h_delay,            \* the argument of asyncio.sleep, as a fraction num/den
    h_trace             \* the keystrokes sent and the sleeps that are over, in order

\* browser.py: one call of Browser.select or Browser.find
VARIABLES
    l_kind,         \* "select" or "find"; "none": no lookup is being made
    l_timeout,      \* timeout, in seconds
    l_clock,        \* the seconds the lookup of the current attempt has run
    l_trace         \* how each attempt's lookup ended, and after how long

retryVars == <<r_cfg, r_pc, r_attempt, r_last_error, r_result, r_trace>>
browserVars == <<state>>
transitionVars == <<tt_pc, tt_target, tt_max_retries, tt_attempt, tt_result,
                    tt_state0, tt_trace>>

gmailVars == <<mailbox, max_connections, semaphore, f_pc, f_limit, f_ret, th, orphans, g_pc, g_ret,
               w_pc, w_args, w_existing, w_elapsed, w_result, stopwatch, w_hist>>

accountVars == <<a_pc, a_existing, a_verify_link, a_ret, a_before, a_shot, cf_pc, cf_attempt,
                 cf_result>>

tileVars == <<tm_max_tiles, tm_available, tm_released, s_slot>>
runnerVars == <<k_max, k_sem, k_pc, k_result, k_fetches, k_gathered>>
gridVars == <<tm_columns, tm_rows, tm_window_width, tm_window_height, p_args, p_ret>>
delayVars == <<d_mode, d_profile, d_pc, d_extra, d_slept>>
typingVars == <<h_text, h_speed_multiplier, h_pc, h_i, h_delay, h_trace>>
lookupVars == <<l_kind, l_timeout, l_clock, l_trace>>

vars == <<retryVars, browserVars, transitionVars, gmailVars, accountVars, tileVars, runnerVars, gridVars, delayVars, typingVars, lookupVars>>

\* What the actions of one component leave alone.
othersThanRetry == <<browserVars, transitionVars, gmailVars, accountVars, tileVars, runnerVars, gridVars, delayVars, typingVars, lookupVars>>
othersThanTransition == <<retryVars, gmailVars, accountVars, tileVars, runnerVars, gridVars, delayVars, typingVars, lookupVars>>
othersThanGmail == <<retryVars, browserVars, transitionVars, accountVars, tileVars, runnerVars, gridVars, delayVars, typingVars, lookupVars>>
othersThanTiles == <<retryVars, browserVars, transitionVars, gmailVars, accountVars, runnerVars, gridVars, delayVars, typingVars, lookupVars>>
othersThanRunner == <<retryVars, browserVars, transitionVars, gmailVars, accountVars, gridVars, delayVars, typingVars, lookupVars>>
othersThanGrid == <<retryVars, browserVars, transitionVars, gmailVars, accountVars, tileVars, runnerVars, delayVars, typingVars, lookupVars>>
othersThanDelay == <<retryVars, browserVars, transitionVars, gmailVars, accountVars, tileVars, runnerVars, gridVars, typingVars, lookupVars>>
othersThanTyping == <<retryVars, browserVars, transitionVars, gmailVars, accountVars, tileVars, runnerVars, gridVars, delayVars, lookupVars>>

Min(a, b) == IF a <= b THEN a ELSE b
Max(a, b) == IF a >= b THEN a ELSE b

RECURSIVE Pow2(_)
Pow2(n) == IF n = 0 THEN 1 ELSE 2 * Pow2(n - 1)

(***************************************************************************)
(* retry.py: the retry/backoff executor                                     *)
(***************************************************************************)
\* The configurations tried: RetryConfig's fields and the on_retry argument.
RetryConfig ==
    [max_retries : 0..MaxRetriesTried,
     base_delay  : 1..MaxBaseDelay,
     max_delay   : 1..MaxDelayCap,
     exponential : BOOLEAN,
     on_retry    : BOOLEAN]

\* The backoff with max_delay forgotten.
BackoffDelayUncapped(cfg, attempt) ==
    IF cfg.exponential THEN cfg.base_delay * Pow2(attempt) ELSE cfg.base_delay

\* retry.py line 32: the backoff slept after the failure of attempt `attempt`.
BackoffDelay(cfg, attempt) ==
    IF cfg.exponential
    THEN Min(cfg.base_delay * Pow2(attempt), cfg.max_delay)
    ELSE cfg.base_delay

Invocations(trace) == SelectSeq(trace, LAMBDA e : e.kind = "call")
Sleeps(trace)      == SelectSeq(trace, LAMBDA e : e.kind = "sleep")
Reports(trace)     == SelectSeq(trace, LAMBDA e : e.kind = "on_retry")

RetryIdle ==
    /\ r_cfg = [max_retries |-> 0, base_delay |-> 1, max_delay |-> 1,
                exponential |-> FALSE, on_retry |-> FALSE]
    /\ r_pc = "idle"
    /\ r_attempt = 0
    /\ r_last_error = 0
    /\ r_result = [kind |-> "none"]
    /\ r_trace = << >>

\* retry() entered: cfg bound, last_error None, the loop at attempt 0.
RetryInit ==
    /\ r_cfg \in RetryConfig
    /\ r_pc = "try"
    /\ r_attempt = 0
    /\ r_last_error = 0
    /\ r_result = [kind |-> "none"]
    /\ r_trace = << >>

\* `return await operation()`: the n-th invocation succeeds with value n.
RetryReturn ==
    /\ r_pc = "try"
    /\ LET n == Len(Invocations(r_trace)) + 1 IN
        /\ r_trace' = Append(r_trace, [kind |-> "call", n |-> n, ok |-> TRUE])
        /\ r_result' = [kind |-> "value", n |-> n]
    /\ r_pc' = "returned"
    /\ UNCHANGED <<r_cfg, r_attempt, r_last_error>>

RetryInvokeOk ==
    /\ l_kind = "none"
    /\ RetryReturn
    /\ UNCHANGED othersThanRetry

\* The loop's own attempt number, counted from 0.
OnRetryAttemptFromZero(attempt) == attempt

\* retry.py line 34: the attempt number on_retry is given, counted from 1.
OnRetryAttempt(attempt) == attempt + 1

\* The n-th invocation raises error n: the except block of retry.py lines
\* 29-35 up to the sleep, and, on the attempt that fails `attempt < limit`,
\* the end of the loop and `raise last_error`.
RetryCatch(limit) ==
    /\ r_pc = "try"
    /\ LET n == Len(Invocations(r_trace)) + 1
           called == Append(r_trace, [kind |-> "call", n |-> n, ok |-> FALSE])
           reported ==
               IF r_cfg.on_retry
               THEN Append(called, [kind |-> "on_retry", attempt |-> OnRetryAttempt(r_attempt),
                                    max_retries |-> r_cfg.max_retries, error |-> n])
               ELSE called
       IN
        /\ r_last_error' = n
        /\ IF r_attempt < limit
           THEN /\ r_trace' = Append(reported,
                        [kind |-> "sleep", delay |-> BackoffDelay(r_cfg, r_attempt)])
                /\ r_pc' = "sleep"
                /\ r_result' = r_result
           ELSE /\ r_trace' = called
                /\ r_pc' = "raised"
                /\ r_result' = [kind |-> "error", n |-> n]
    /\ UNCHANGED <<r_cfg, r_attempt>>

RetryExcept(limit) ==
    /\ l_kind = "none"
    /\ RetryCatch(limit)
    /\ UNCHANGED othersThanRetry

\* The except block giving up one attempt early (attempt < max_retries - 1).
RetryInvokeFailEarly == RetryExcept(r_cfg.max_retries - 1)

\* retry.py lines 29-37 with the loop's own limit, `attempt < cfg.max_retries`.
RetryInvokeFail == RetryExcept(r_cfg.max_retries)

\* asyncio.sleep(delay) is over: the loop goes to its next attempt.
RetryWake ==
    /\ r_pc = "sleep"
    /\ r_attempt' = r_attempt + 1
    /\ r_pc' = "try"
    /\ UNCHANGED <<r_cfg, r_last_error, r_result, r_trace>>
    /\ UNCHANGED othersThanRetry

RetryNext ==
    \/ RetryInvokeOk
    \/ RetryInvokeFail
    \/ RetryWake

(***************************************************************************)
(* examples/topps.py: the workflow states and the validated transition      *)
(***************************************************************************)
\* largest max_retries argument of _transition_to tried
MaxTransitionRetries == 2

\* class ToppsState
ToppsState ==
    {"INIT", "HOMEPAGE", "CF_CHECK_1", "LOGIN_PAGE", "CF_CHECK_2", "EMAIL_ENTRY",
     "CONTINUE_CLICKED", "REGISTRATION_FORM", "FORM_SUBMITTED", "WAITING_EMAIL",
     "VERIFICATION_LINK", "COMPLETE", "FAILED"}

\* The substrings the validators look for; a location (self.tab.target.url)
\* is the set of those it contains.
Markers == {"topps.com", "id.fanatics.com", "account/login", "verify-email"}
Url == SUBSET Markers

\* The keys of STATE_VALIDATORS.
ValidatedStates ==
    {"HOMEPAGE", "LOGIN_PAGE", "EMAIL_ENTRY", "REGISTRATION_FORM", "VERIFICATION_LINK"}

\* STATE_VALIDATORS[s](u), for s a key of the table.
STATE_VALIDATORS(s, u) ==
    CASE s = "HOMEPAGE"          -> "topps.com" \in u
      [] s = "LOGIN_PAGE"        -> "id.fanatics.com" \in u \/ "account/login" \in u
      [] s = "EMAIL_ENTRY"       -> "id.fanatics.com" \in u
      [] s = "REGISTRATION_FORM" -> "id.fanatics.com" \in u
      [] s = "VERIFICATION_LINK" -> "verify-email" \in u

\* A validation that accepts every location.
ValidateStateAlways(s, u) == TRUE

\* _validate_state: no registered validator counts as valid.
ValidateState(s, u) ==
    IF s \notin ValidatedStates THEN TRUE ELSE STATE_VALIDATORS(s, u)

ActionCalls(trace) == SelectSeq(trace, LAMBDA e : e.kind = "action")
Cooldowns(trace)   == SelectSeq(trace, LAMBDA e : e.kind = "cooldown")
Validations(trace) == SelectSeq(trace, LAMBDA e : e.kind = "validate")
Assignments(trace) == SelectSeq(trace, LAMBDA e : e.kind = "set_state")

BrowserIdle == state = "INIT"

TransitionIdle ==
    /\ tt_pc = "idle"
    /\ tt_target = "INIT"
    /\ tt_max_retries = 0
    /\ tt_attempt = 0
    /\ tt_result = "none"
    /\ tt_state0 = "INIT"
    /\ tt_trace = << >>

\* _transition_to(target, action, max_retries) entered from state s0.
TransitionCalled(s0, target, max_retries) ==
    /\ tt_pc = "action"
    /\ tt_target = target
    /\ tt_max_retries = max_retries
    /\ tt_attempt = 0
    /\ tt_result = "none"
    /\ tt_state0 = s0
    /\ tt_trace = << >>

\* A generator in any workflow state calls _transition_to with any target
\* and retry budget.
TransitionInit ==
    /\ state \in ToppsState
    /\ \E target \in ToppsState, mr \in 0..MaxTransitionRetries :
            TransitionCalled(state, target, mr)

\* `await action()` returns.
TtActionOk ==
    /\ tt_pc = "action"
    /\ tt_trace' = Append(tt_trace, [kind |-> "action", ok |-> TRUE])
    /\ tt_pc' = "delay"
    /\ UNCHANGED <<state, tt_target, tt_max_retries, tt_attempt, tt_result, tt_state0>>
    /\ UNCHANGED othersThanTransition

\* `await action()` raises: line 115 catches and logs it.
TtActionRaises ==
    /\ tt_pc = "action"
    /\ tt_trace' = Append(tt_trace, [kind |-> "action", ok |-> FALSE])
    /\ tt_pc' = "cooldown"
    /\ UNCHANGED <<state, tt_target, tt_max_retries, tt_attempt, tt_result, tt_state0>>
    /\ UNCHANGED othersThanTransition

\* delay("short") is over; lines 108-114 then read the location u the tab
\* shows now, validate it and, when it passes, advance the state and return
\* True, with no suspension point in between.
TtValidate ==
    /\ tt_pc = "delay"
    /\ \E u \in Url :
        LET ok == ValidateState(tt_target, u)
            validated == Append(tt_trace, [kind |-> "validate", result |-> ok])
        IN
        IF ok
        THEN /\ state' = tt_target
             /\ tt_trace' = Append(validated, [kind |-> "set_state", to |-> tt_target, url |-> u])
             /\ tt_result' = "True"
             /\ tt_pc' = "done"
        ELSE /\ tt_trace' = validated
             /\ tt_pc' = "cooldown"
             /\ UNCHANGED <<state, tt_result>>
    /\ UNCHANGED <<tt_target, tt_max_retries, tt_attempt, tt_state0>>
    /\ UNCHANGED othersThanTransition

\* Lines 118-121 sleeping the cooldown whenever attempt <= limit.
TtCooldownUpTo(limit) ==
    /\ tt_pc = "cooldown"
    /\ tt_trace' = IF tt_attempt < limit
                   THEN Append(tt_trace, [kind |-> "cooldown", seconds |-> 2])
                   ELSE tt_trace
    /\ IF tt_attempt < tt_max_retries
       THEN /\ tt_attempt' = tt_attempt + 1
            /\ tt_pc' = "action"
            /\ UNCHANGED tt_result
       ELSE /\ tt_result' = "False"
            /\ tt_pc' = "done"
            /\ UNCHANGED tt_attempt
    /\ UNCHANGED <<state, tt_target, tt_max_retries, tt_state0>>
    /\ UNCHANGED othersThanTransition

\* The cooldown slept after the last attempt too.
TtCooldownAfterLast == TtCooldownUpTo(tt_max_retries + 1)

\* Lines 118-121: sleep 2 s when attempts remain, then the next attempt, or
\* the end of the loop and `return False`.
TtCooldown == TtCooldownUpTo(tt_max_retries)

TransitionNext ==
    \/ TtActionOk
    \/ TtActionRaises
    \/ TtValidate
    \/ TtCooldown

(***************************************************************************)
(* email/gmail.py: the mailbox behind its concurrency gate                  *)
(***************************************************************************)
\* number of tasks sharing the GmailClient
NumPollers == 2
\* largest GmailConfig.max_connections tried
MaxConnectionsTried == 2
\* most worker threads left running by fetches that timed out
MaxOrphans == 1
\* most messages the mailbox holds
MaxMailbox == 2
\* largest timeout argument of wait_for_* tried
MaxWaitTimeout == 3
\* largest poll_interval argument of wait_for_* tried
MaxPollInterval == 2
\* longest a fetch that completes in time is taken to last
MaxFetchSeconds == 1

\* _fetch_links / _fetch_codes: timeout: int = 30
FETCH_TIMEOUT == 30
\* _jittered_sleep: random.uniform(-2, 2)
JITTER == 2
\* get_existing_links / get_existing_codes: limit 10
EXISTING_LIMIT == 10
\* wait_for_link / wait_for_code / wait_for_code_optional: limit 5
POLL_LIMIT == 5

Pollers == 1..NumPollers

\* A is the message there before any call; these arrive later.
NewItems == {"B", "C"}

\* wait_for_link, wait_for_code, wait_for_code_optional
WaitVariants == {"link", "code", "code_optional"}

Range(seq) == {seq[i] : i \in DOMAIN seq}
Reverse(seq) == [i \in 1..Len(seq) |-> seq[Len(seq) + 1 - i]]

\* The last `limit` message numbers in mailbox order, oldest first.
OldestFirst(mb, limit) ==
    IF Len(mb) > limit THEN SubSeq(mb, Len(mb) - limit + 1, Len(mb)) ELSE mb

\* Lines 97-98: the last `limit` message numbers, newest first.
RecentFirst(mb, limit) ==
    Reverse(IF Len(mb) > limit THEN SubSeq(mb, Len(mb) - limit + 1, Len(mb)) ELSE mb)

\* Lines 98-106: the items of the messages in that order, without repeats.
RECURSIVE Collect(_, _)
Collect(msgs, links) ==
    IF msgs = << >> THEN links
    ELSE Collect(Tail(msgs),
                 IF Head(msgs) \in Range(links) THEN links ELSE Append(links, Head(msgs)))

\* _get_all_links / _get_all_codes on a mailbox holding the messages mb.
GetAllLinks(mb, limit) == Collect(RecentFirst(mb, limit), << >>)

\* The loop of lines 246-248 returning whatever comes first.
FirstNewUnchecked(links, existing) ==
    IF links = << >> THEN "" ELSE Head(links)

\* Lines 246-248: the first fetched item not in existing; "" when there is none.
RECURSIVE FirstNew(_, _)
FirstNew(links, existing) ==
    IF links = << >> THEN ""
    ELSE IF Head(links) \notin existing THEN Head(links)
    ELSE FirstNew(Tail(links), existing)

\* _jittered_sleep: interval = max(1, base_interval + jitter)
JitteredInterval(base_interval, jitter) == Max(1, base_interval + jitter)

NoThread == [pc |-> "none", links |-> << >>, raised |-> FALSE]
NoReturn == [kind |-> "none", val |-> << >>, timed_out |-> FALSE]
NoSet    == [kind |-> "none", val |-> {}, timed_out |-> FALSE]
NoArgs   == [variant |-> "link", timeout |-> 0, poll_interval |-> 0]
NoResult == [kind |-> "none", item |-> ""]
NoExisting == [given |-> FALSE, val |-> {}]

\* The record of a wait_for call that is not being recorded, and one entry
\* of a record: the start of the call, the snapshot with what it gave, a
\* sleep with its interval, a fetch with what it returned, or the end of
\* the loop.
Unrecorded == <<[kind |-> "off", interval |-> 0, ret |-> NoReturn, seen |-> NoSet]>>
Note(p, kind, interval, ret, seen) ==
    w_hist' = [w_hist EXCEPT ![p] =
                IF @ = Unrecorded THEN @
                ELSE Append(@, [kind |-> kind, interval |-> interval, ret |-> ret, seen |-> seen])]

\* The sessions open on the mailbox: connected and not yet logged out.
OpenSessions ==
    Cardinality({p \in Pollers : th[p].pc = "open"}) + orphans.open

\* The stopwatch of the caller's test, when it runs one.
Elapse(p, seconds) ==
    stopwatch' = [stopwatch EXCEPT ![p] = IF @ < 0 THEN @ ELSE @ + seconds]

\* GmailClient(config) built with max_connections = permits: no call in progress.
GmailIdle(permits) ==
    /\ max_connections = permits
    /\ semaphore = permits
    /\ f_pc = [p \in Pollers |-> "idle"]
    /\ f_limit = [p \in Pollers |-> 0]
    /\ f_ret = [p \in Pollers |-> NoReturn]
    /\ th = [p \in Pollers |-> NoThread]
    /\ orphans = [connect |-> 0, open |-> 0]
    /\ g_pc = [p \in Pollers |-> "idle"]
    /\ g_ret = [p \in Pollers |-> NoSet]
    /\ w_pc = [p \in Pollers |-> "idle"]
    /\ w_args = [p \in Pollers |-> NoArgs]
    /\ w_existing = [p \in Pollers |-> NoExisting]
    /\ w_elapsed = [p \in Pollers |-> 0]
    /\ w_result = [p \in Pollers |-> NoResult]
    /\ stopwatch = [p \in Pollers |-> -1]
    /\ w_hist = [p \in Pollers |-> Unrecorded]

\* A new message, with a link of its own, reaches the mailbox.
MailArrives ==
    /\ Len(mailbox) < MaxMailbox
    /\ \E item \in NewItems \ Range(mailbox) : mailbox' = Append(mailbox, item)
    /\ UNCHANGED <<max_connections, semaphore, f_pc, f_limit, f_ret, th, orphans, g_pc, g_ret, w_pc,
                   w_args, w_existing, w_elapsed, w_result, stopwatch, w_hist>>
    /\ UNCHANGED othersThanGmail

\* `async with self._semaphore` entered: a permit taken, and the worker
\* thread of asyncio.to_thread started under asyncio.wait_for.
FetchAcquire(p) ==
    /\ f_pc[p] = "acquire"
    /\ semaphore > 0
    /\ semaphore' = semaphore - 1
    /\ th' = [th EXCEPT ![p] = [pc |-> "connect", links |-> << >>, raised |-> FALSE]]
    /\ f_pc' = [f_pc EXCEPT ![p] = "await"]
    /\ UNCHANGED <<mailbox, max_connections, f_limit, f_ret, orphans, g_pc, g_ret, w_pc, w_args,
                   w_existing, w_elapsed, w_result, stopwatch, w_hist>>
    /\ UNCHANGED othersThanGmail

\* _connect in the worker thread: IMAP4_SSL and login succeed.
ThreadConnectOk(p) ==
    /\ th[p].pc = "connect"
    /\ th' = [th EXCEPT ![p].pc = "open"]
    /\ UNCHANGED <<mailbox, max_connections, semaphore, f_pc, f_limit, f_ret, orphans, g_pc, g_ret,
                   w_pc, w_args, w_existing, w_elapsed, w_result, stopwatch, w_hist>>
    /\ UNCHANGED othersThanGmail

\* _connect raises: no session, the thread ends with the error.
ThreadConnectRaises(p) ==
    /\ th[p].pc = "connect"
    /\ th' = [th EXCEPT ![p] = [pc |-> "finished", links |-> << >>, raised |-> TRUE]]
    /\ UNCHANGED <<mailbox, max_connections, semaphore, f_pc, f_limit, f_ret, orphans, g_pc, g_ret,
                   w_pc, w_args, w_existing, w_elapsed, w_result, stopwatch, w_hist>>
    /\ UNCHANGED othersThanGmail

\* Lines 90-109: select, search, fetch and extract, then logout in `finally`.
ThreadFetchOk(p) ==
    /\ th[p].pc = "open"
    /\ th' = [th EXCEPT ![p] = [pc |-> "finished",
                                 links |-> GetAllLinks(mailbox, f_limit[p]),
                                 raised |-> FALSE]]
    /\ UNCHANGED <<mailbox, max_connections, semaphore, f_pc, f_limit, f_ret, orphans, g_pc, g_ret,
                   w_pc, w_args, w_existing, w_elapsed, w_result, stopwatch, w_hist>>
    /\ UNCHANGED othersThanGmail

\* select, search or fetch raises: logout in `finally`, the error goes on.
ThreadFetchRaises(p) ==
    /\ th[p].pc = "open"
    /\ th' = [th EXCEPT ![p] = [pc |-> "finished", links |-> << >>, raised |-> TRUE]]
    /\ UNCHANGED <<mailbox, max_connections, semaphore, f_pc, f_limit, f_ret, orphans, g_pc, g_ret,
                   w_pc, w_args, w_existing, w_elapsed, w_result, stopwatch, w_hist>>
    /\ UNCHANGED othersThanGmail

\* The thread ended within the timeout: _fetch_links returns its list or
\* lets its error through, and `async with` gives the permit back.
FetchReturn(p) ==
    /\ f_pc[p] = "await"
    /\ th[p].pc = "finished"
    /\ f_ret' = [f_ret EXCEPT ![p] =
                    [kind |-> IF th[p].raised THEN "raised" ELSE "value",
                     val |-> th[p].links, timed_out |-> FALSE]]
    /\ th' = [th EXCEPT ![p] = NoThread]
    /\ semaphore' = semaphore + 1
    /\ f_pc' = [f_pc EXCEPT ![p] = "done"]
    /\ \E seconds \in 0..MaxFetchSeconds : Elapse(p, seconds)
    /\ UNCHANGED <<mailbox, max_connections, f_limit, orphans, g_pc, g_ret, w_pc, w_args, w_existing,
                   w_elapsed, w_result, w_hist>>
    /\ UNCHANGED othersThanGmail

\* What _fetch_links would give on a timeout without its except clause.
TimedOutUncaught == [kind |-> "raised", val |-> << >>, timed_out |-> TRUE]

\* Lines 220-221: `except asyncio.TimeoutError: return []`.
TimedOut == [kind |-> "value", val |-> << >>, timed_out |-> TRUE]

\* asyncio.wait_for gives up after `timeout` seconds: the future is cancelled
\* but the worker thread cannot be and runs on; `except asyncio.TimeoutError`
\* returns [] and `async with` gives the permit back.
FetchTimeout(p) ==
    /\ f_pc[p] = "await"
    /\ th[p].pc \in {"connect", "open"}
    /\ orphans.connect + orphans.open < MaxOrphans
    /\ orphans' = IF th[p].pc = "connect"
                  THEN [orphans EXCEPT !.connect = @ + 1]
                  ELSE [orphans EXCEPT !.open = @ + 1]
    /\ f_ret' = [f_ret EXCEPT ![p] = TimedOut]
    /\ th' = [th EXCEPT ![p] = NoThread]
    /\ semaphore' = semaphore + 1
    /\ f_pc' = [f_pc EXCEPT ![p] = "done"]
    /\ Elapse(p, FETCH_TIMEOUT)
    /\ UNCHANGED <<mailbox, max_connections, f_limit, g_pc, g_ret, w_pc, w_args, w_existing,
                   w_elapsed, w_result, w_hist>>
    /\ UNCHANGED othersThanGmail

\* What _fetch_links lets through when its task is cancelled.
Cancelled == [kind |-> "raised", val |-> << >>, timed_out |-> FALSE]

\* A cancellation that leaves `async with` without giving the permit back.
FetchCancelledKeepsPermit(p) ==
    /\ f_pc[p] \in {"acquire", "await"}
    /\ th[p].pc \in {"connect", "open"} => orphans.connect + orphans.open < MaxOrphans
    /\ orphans' = CASE th[p].pc = "connect" -> [orphans EXCEPT !.connect = @ + 1]
                    [] th[p].pc = "open" -> [orphans EXCEPT !.open = @ + 1]
                    [] OTHER -> orphans
    /\ th' = [th EXCEPT ![p] = NoThread]
    /\ f_ret' = [f_ret EXCEPT ![p] = Cancelled]
    /\ f_pc' = [f_pc EXCEPT ![p] = "done"]
    /\ UNCHANGED <<mailbox, max_connections, semaphore, f_limit, g_pc, g_ret, w_pc, w_args, w_existing,
                   w_elapsed, w_result, stopwatch, w_hist>>
    /\ UNCHANGED othersThanGmail

\* The task is cancelled inside _fetch_links: while it waits for a permit,
\* which it then never takes, or while it awaits the thread, which runs on
\* as after a timeout while `async with` gives the permit back;
\* CancelledError goes on to the caller.
FetchCancelled(p) ==
    /\ f_pc[p] \in {"acquire", "await"}
    /\ th[p].pc \in {"connect", "open"} => orphans.connect + orphans.open < MaxOrphans
    /\ orphans' = CASE th[p].pc = "connect" -> [orphans EXCEPT !.connect = @ + 1]
                    [] th[p].pc = "open" -> [orphans EXCEPT !.open = @ + 1]
                    [] OTHER -> orphans
    /\ th' = [th EXCEPT ![p] = NoThread]
    /\ semaphore' = IF f_pc[p] = "await" THEN semaphore + 1 ELSE semaphore
    /\ f_ret' = [f_ret EXCEPT ![p] = Cancelled]
    /\ f_pc' = [f_pc EXCEPT ![p] = "done"]
    /\ UNCHANGED <<mailbox, max_connections, f_limit, g_pc, g_ret, w_pc, w_args, w_existing,
                   w_elapsed, w_result, stopwatch, w_hist>>
    /\ UNCHANGED othersThanGmail

\* A thread left behind by a timeout connects and logs in.
OrphanConnectOk ==
    /\ orphans.connect > 0
    /\ orphans' = [connect |-> orphans.connect - 1, open |-> orphans.open + 1]
    /\ UNCHANGED <<mailbox, max_connections, semaphore, f_pc, f_limit, f_ret, th, g_pc, g_ret, w_pc,
                   w_args, w_existing, w_elapsed, w_result, stopwatch, w_hist>>
    /\ UNCHANGED othersThanGmail

\* A thread left behind fails to connect and ends.
OrphanConnectRaises ==
    /\ orphans.connect > 0
    /\ orphans' = [orphans EXCEPT !.connect = @ - 1]
    /\ UNCHANGED <<mailbox, max_connections, semaphore, f_pc, f_limit, f_ret, th, g_pc, g_ret, w_pc,
                   w_args, w_existing, w_elapsed, w_result, stopwatch, w_hist>>
    /\ UNCHANGED othersThanGmail

\* A thread left behind ends its session (its result goes nowhere).
OrphanLogout ==
    /\ orphans.open > 0
    /\ orphans' = [orphans EXCEPT !.open = @ - 1]
    /\ UNCHANGED <<mailbox, max_connections, semaphore, f_pc, f_limit, f_ret, th, g_pc, g_ret, w_pc,
                   w_args, w_existing, w_elapsed, w_result, stopwatch, w_hist>>
    /\ UNCHANGED othersThanGmail

\* get_existing_links returns set(...) of what the fetch gave, or its error.
GetExistingReturn(p) ==
    /\ g_pc[p] = "await"
    /\ f_pc[p] = "done"
    /\ g_ret' = [g_ret EXCEPT ![p] = [kind |-> f_ret[p].kind, val |-> Range(f_ret[p].val),
                                       timed_out |-> f_ret[p].timed_out]]
    /\ g_pc' = [g_pc EXCEPT ![p] = "done"]
    /\ f_pc' = [f_pc EXCEPT ![p] = "idle"]
    /\ f_ret' = [f_ret EXCEPT ![p] = NoReturn]
    /\ UNCHANGED <<mailbox, max_connections, semaphore, f_limit, th, orphans, w_pc, w_args, w_existing,
                   w_elapsed, w_result, stopwatch, w_hist>>
    /\ UNCHANGED othersThanGmail

\* A task whose get_existing_links is back calls it again.
GetExistingCall(p) ==
    /\ g_pc[p] = "done"
    /\ w_pc[p] = "idle"
    /\ g_pc' = [g_pc EXCEPT ![p] = "await"]
    /\ g_ret' = [g_ret EXCEPT ![p] = NoSet]
    /\ f_pc' = [f_pc EXCEPT ![p] = "acquire"]
    /\ f_limit' = [f_limit EXCEPT ![p] = EXISTING_LIMIT]
    /\ UNCHANGED <<mailbox, max_connections, semaphore, f_ret, th, orphans, w_pc, w_args, w_existing,
                   w_elapsed, w_result, stopwatch, w_hist>>
    /\ UNCHANGED othersThanGmail

\* Lines 241-243: take the snapshot when no existing set was given.
WfStart(p) ==
    /\ w_pc[p] = "start"
    /\ IF w_existing[p].given
       THEN /\ w_pc' = [w_pc EXCEPT ![p] = "loop"]
            /\ UNCHANGED <<g_pc, f_pc, f_limit>>
       ELSE /\ w_pc' = [w_pc EXCEPT ![p] = "snapshot"]
            /\ g_pc' = [g_pc EXCEPT ![p] = "await"]
            /\ f_pc' = [f_pc EXCEPT ![p] = "acquire"]
            /\ f_limit' = [f_limit EXCEPT ![p] = EXISTING_LIMIT]
    /\ Note(p, "start", 0, NoReturn, NoSet)
    /\ UNCHANGED <<mailbox, max_connections, semaphore, f_ret, th, orphans, g_ret, w_args, w_existing,
                   w_elapsed, w_result, stopwatch>>
    /\ UNCHANGED othersThanGmail

\* The snapshot is back: it becomes the existing set, or its error goes on.
WfSnapshot(p) ==
    /\ w_pc[p] = "snapshot"
    /\ g_pc[p] = "done"
    /\ IF g_ret[p].kind = "raised"
       THEN /\ w_pc' = [w_pc EXCEPT ![p] = "done"]
            /\ w_result' = [w_result EXCEPT ![p] = [kind |-> "raised", item |-> ""]]
            /\ UNCHANGED w_existing
       ELSE /\ w_pc' = [w_pc EXCEPT ![p] = "loop"]
            /\ w_existing' = [w_existing EXCEPT ![p] = [given |-> TRUE, val |-> g_ret[p].val]]
            /\ UNCHANGED w_result
    /\ g_pc' = [g_pc EXCEPT ![p] = "idle"]
    /\ g_ret' = [g_ret EXCEPT ![p] = NoSet]
    /\ Note(p, "snapshot", 0, NoReturn, g_ret[p])
    /\ UNCHANGED <<mailbox, max_connections, semaphore, f_pc, f_limit, f_ret, th, orphans, w_args,
                   w_elapsed, stopwatch>>
    /\ UNCHANGED othersThanGmail

\* Every variant returning None when the loop ends.
NotFoundNone(variant) == [kind |-> "None", item |-> ""]

\* What the variant does when the loop ends: wait_for_code raises
\* TimeoutError, the other two return None.
NotFound(variant) ==
    [kind |-> IF variant = "code" THEN "TimeoutError" ELSE "None", item |-> ""]

\* `while elapsed < timeout`: sleep the jittered interval, add it to elapsed
\* and call the fetch (limit 5); or leave the loop with not-found.
WfLoop(p) ==
    /\ w_pc[p] = "loop"
    /\ IF w_elapsed[p] < w_args[p].timeout
       THEN \E jitter \in (-JITTER)..JITTER :
                LET interval == JitteredInterval(w_args[p].poll_interval, jitter) IN
                /\ w_elapsed' = [w_elapsed EXCEPT ![p] = @ + interval]
                /\ Elapse(p, interval)
                /\ Note(p, "sleep", interval, NoReturn, NoSet)
                /\ w_pc' = [w_pc EXCEPT ![p] = "fetch"]
                /\ f_pc' = [f_pc EXCEPT ![p] = "acquire"]
                /\ f_limit' = [f_limit EXCEPT ![p] = POLL_LIMIT]
                /\ UNCHANGED w_result
       ELSE /\ w_pc' = [w_pc EXCEPT ![p] = "done"]
            /\ w_result' = [w_result EXCEPT ![p] = NotFound(w_args[p].variant)]
            /\ Note(p, "end", 0, NoReturn, NoSet)
            /\ UNCHANGED <<w_elapsed, stopwatch, f_pc, f_limit>>
    /\ UNCHANGED <<mailbox, max_connections, semaphore, f_ret, th, orphans, g_pc, g_ret, w_args,
                   w_existing>>
    /\ UNCHANGED othersThanGmail

\* The fetch of this round is back: return the first new item, go round
\* again when there is none, or let the fetch's error through.
WfScan(p) ==
    /\ w_pc[p] = "fetch"
    /\ f_pc[p] = "done"
    /\ LET new == FirstNew(f_ret[p].val, w_existing[p].val) IN
        IF f_ret[p].kind = "raised"
        THEN /\ w_pc' = [w_pc EXCEPT ![p] = "done"]
             /\ w_result' = [w_result EXCEPT ![p] = [kind |-> "raised", item |-> ""]]
        ELSE IF new # ""
        THEN /\ w_pc' = [w_pc EXCEPT ![p] = "done"]
             /\ w_result' = [w_result EXCEPT ![p] = [kind |-> "item", item |-> new]]
        ELSE /\ w_pc' = [w_pc EXCEPT ![p] = "loop"]
             /\ UNCHANGED w_result
    /\ f_pc' = [f_pc EXCEPT ![p] = "idle"]
    /\ f_ret' = [f_ret EXCEPT ![p] = NoReturn]
    /\ Note(p, "fetch", 0, f_ret[p], NoSet)
    /\ UNCHANGED <<mailbox, max_connections, semaphore, f_limit, th, orphans, g_pc, g_ret, w_args,
                   w_existing, w_elapsed, stopwatch>>
    /\ UNCHANGED othersThanGmail

\* The steps of the client and of its worker threads.
GmailStep ==
    \/ \E p \in Pollers : FetchAcquire(p)
    \/ \E p \in Pollers : ThreadConnectOk(p)
    \/ \E p \in Pollers : ThreadConnectRaises(p)
    \/ \E p \in Pollers : ThreadFetchOk(p)
    \/ \E p \in Pollers : ThreadFetchRaises(p)
    \/ \E p \in Pollers : FetchReturn(p)
    \/ \E p \in Pollers : FetchTimeout(p)
    \/ OrphanConnectOk
    \/ OrphanConnectRaises
    \/ OrphanLogout
    \/ \E p \in Pollers : GetExistingReturn(p)
    \/ \E p \in Pollers : WfStart(p)
    \/ \E p \in Pollers : WfSnapshot(p)
    \/ \E p \in Pollers : WfLoop(p)
    \/ \E p \in Pollers : WfScan(p)

(***************************************************************************)
(* examples/topps.py: create_account                                        *)
(***************************************************************************)
DEFAULT_MAX_RETRIES == 2
CF_MAX_ATTEMPTS == 3
LINK_TIMEOUT == 120
LINK_POLL_INTERVAL == 5

\* The task create_account runs in.
Me == 1

NoRet == [done |-> FALSE, ok |-> FALSE, text |-> "", state |-> ""]

\* (success, message); state is the state name the message quotes, "" when
\* it quotes none.
Ret(ok, text, st) == [done |-> TRUE, ok |-> ok, text |-> text, state |-> st]

AccountIdle ==
    /\ a_pc = "idle"
    /\ a_existing = {}
    /\ a_verify_link = ""
    /\ a_ret = NoRet
    /\ a_before = {}
    /\ a_shot = "none"
    /\ cf_pc = "idle"
    /\ cf_attempt = 0
    /\ cf_result = FALSE

\* `await self._transition_to(target, action)` entered from state s0,
\* max_retries defaulted.
CallTransition(s0, target) ==
    /\ tt_pc' = "action"
    /\ tt_target' = target
    /\ tt_max_retries' = DEFAULT_MAX_RETRIES
    /\ tt_attempt' = 0
    /\ tt_result' = "none"
    /\ tt_state0' = s0
    /\ tt_trace' = << >>

\* What _transition_to returned has been read.
TransitionRead ==
    /\ tt_pc' = "idle"
    /\ tt_target' = "INIT"
    /\ tt_max_retries' = 0
    /\ tt_attempt' = 0
    /\ tt_result' = "none"
    /\ tt_state0' = "INIT"
    /\ tt_trace' = << >>

\* `await self._verify_cf_with_retry()` entered.
CallVerifyCf ==
    /\ cf_pc' = "verify"
    /\ cf_attempt' = 0
    /\ cf_result' = FALSE

\* Lines 70-78: verify_cf passed and no challenge is left.
CfPassed ==
    /\ cf_pc = "verify"
    /\ cf_result' = TRUE
    /\ cf_pc' = "done"
    /\ UNCHANGED <<cf_attempt, a_pc, a_existing, a_verify_link, a_ret, a_before, a_shot>>
    /\ UNCHANGED <<lookupVars, typingVars, delayVars, gridVars, runnerVars, tileVars, retryVars, browserVars, transitionVars, gmailVars>>

\* Lines 74-82: the challenge is still present, or verify_cf raised; the
\* next attempt, or `return False` after the last.
CfNotPassed ==
    /\ cf_pc = "verify"
    /\ IF cf_attempt < CF_MAX_ATTEMPTS - 1
       THEN /\ cf_attempt' = cf_attempt + 1
            /\ UNCHANGED <<cf_pc, cf_result>>
       ELSE /\ cf_result' = FALSE
            /\ cf_pc' = "done"
            /\ UNCHANGED cf_attempt
    /\ UNCHANGED <<a_pc, a_existing, a_verify_link, a_ret, a_before, a_shot>>
    /\ UNCHANGED <<lookupVars, typingVars, delayVars, gridVars, runnerVars, tileVars, retryVars, browserVars, transitionVars, gmailVars>>

\* Lines 132-138: self.state = INIT, then get_existing_links is called.
CaStart ==
    /\ a_pc = "start"
    /\ state' = "INIT"
    /\ a_before' = Range(mailbox)
    /\ g_pc' = [g_pc EXCEPT ![Me] = "await"]
    /\ f_pc' = [f_pc EXCEPT ![Me] = "acquire"]
    /\ f_limit' = [f_limit EXCEPT ![Me] = EXISTING_LIMIT]
    /\ a_pc' = "snapshot"
    /\ UNCHANGED <<a_existing, a_verify_link, a_ret, a_shot, cf_pc, cf_attempt, cf_result>>
    /\ UNCHANGED <<mailbox, max_connections, semaphore, f_ret, th, orphans, g_ret, w_pc, w_args,
                   w_existing, w_elapsed, w_result, stopwatch, w_hist>>
    /\ UNCHANGED <<lookupVars, typingVars, delayVars, gridVars, runnerVars, tileVars, retryVars, transitionVars>>

\* Lines 136-145: the snapshot is back; on to the homepage, or its error
\* goes to the except clause.
CaSnapshot ==
    /\ a_pc = "snapshot"
    /\ g_pc[Me] = "done"
    /\ IF g_ret[Me].kind = "raised"
       THEN /\ a_pc' = "except"
            /\ UNCHANGED <<a_existing, transitionVars>>
       ELSE /\ a_existing' = g_ret[Me].val
            /\ CallTransition(state, "HOMEPAGE")
            /\ a_pc' = "homepage"
    /\ g_pc' = [g_pc EXCEPT ![Me] = "idle"]
    /\ g_ret' = [g_ret EXCEPT ![Me] = NoSet]
    /\ UNCHANGED <<a_verify_link, a_ret, a_before, a_shot, cf_pc, cf_attempt, cf_result>>
    /\ UNCHANGED <<mailbox, max_connections, semaphore, f_pc, f_limit, f_ret, th, orphans, w_pc,
                   w_args, w_existing, w_elapsed, w_result, stopwatch, w_hist>>
    /\ UNCHANGED <<lookupVars, typingVars, delayVars, gridVars, runnerVars, tileVars, retryVars, browserVars>>

\* Lines 142-150: the homepage transition is back.
CaHomepage ==
    /\ a_pc = "homepage"
    /\ tt_pc = "done"
    /\ IF tt_result = "False"
       THEN /\ a_ret' = Ret(FALSE, "Failed to load homepage", state)
            /\ a_pc' = "returned"
            /\ UNCHANGED <<cf_pc, cf_attempt, cf_result>>
       ELSE /\ CallVerifyCf
            /\ a_pc' = "cf1"
            /\ UNCHANGED a_ret
    /\ TransitionRead
    /\ UNCHANGED <<a_existing, a_verify_link, a_before, a_shot>>
    /\ UNCHANGED <<lookupVars, typingVars, delayVars, gridVars, runnerVars, tileVars, retryVars, browserVars, gmailVars>>

\* Lines 150-160: the first Cloudflare check is back.
CaCf1 ==
    /\ a_pc = "cf1"
    /\ cf_pc = "done"
    /\ IF ~cf_result
       THEN /\ a_ret' = Ret(FALSE, "Cloudflare verification failed on homepage", "")
            /\ a_pc' = "returned"
            /\ UNCHANGED <<state, transitionVars>>
       ELSE /\ state' = "CF_CHECK_1"
            /\ CallTransition("CF_CHECK_1", "LOGIN_PAGE")
            /\ a_pc' = "login"
            /\ UNCHANGED a_ret
    /\ cf_pc' = "idle"
    /\ cf_attempt' = 0
    /\ cf_result' = FALSE
    /\ UNCHANGED <<a_existing, a_verify_link, a_before, a_shot>>
    /\ UNCHANGED <<lookupVars, typingVars, delayVars, gridVars, runnerVars, tileVars, retryVars, gmailVars>>

\* Lines 156-166: the login page transition is back; delay("page"), then
\* the second Cloudflare check.
CaLogin ==
    /\ a_pc = "login"
    /\ tt_pc = "done"
    /\ IF tt_result = "False"
       THEN /\ a_ret' = Ret(FALSE, "Failed to load login page", state)
            /\ a_pc' = "returned"
            /\ UNCHANGED <<cf_pc, cf_attempt, cf_result>>
       ELSE /\ CallVerifyCf
            /\ a_pc' = "cf2"
            /\ UNCHANGED a_ret
    /\ TransitionRead
    /\ UNCHANGED <<a_existing, a_verify_link, a_before, a_shot>>
    /\ UNCHANGED <<lookupVars, typingVars, delayVars, gridVars, runnerVars, tileVars, retryVars, browserVars, gmailVars>>

\* Lines 166-169: the second Cloudflare check is back.
CaCf2 ==
    /\ a_pc = "cf2"
    /\ cf_pc = "done"
    /\ IF ~cf_result
       THEN /\ a_ret' = Ret(FALSE, "Cloudflare verification failed on login", "")
            /\ a_pc' = "returned"
            /\ UNCHANGED state
       ELSE /\ state' = "CF_CHECK_2"
            /\ a_pc' = "email_entry"
            /\ UNCHANGED a_ret
    /\ cf_pc' = "idle"
    /\ cf_attempt' = 0
    /\ cf_result' = FALSE
    /\ UNCHANGED <<a_existing, a_verify_link, a_before, a_shot>>
    /\ UNCHANGED <<lookupVars, typingVars, delayVars, gridVars, runnerVars, tileVars, retryVars, transitionVars, gmailVars>>

\* The page steps with CONTINUE_CLICKED and REGISTRATION_FORM exchanged.
FormStepOutOfOrder ==
    [email_entry |-> [to |-> "EMAIL_ENTRY", next |-> "continue"],
     continue    |-> [to |-> "REGISTRATION_FORM", next |-> "form"],
     form        |-> [to |-> "CONTINUE_CLICKED", next |-> "submit"],
     submit      |-> [to |-> "FORM_SUBMITTED", next |-> "waiting"]]

\* The page steps between the Cloudflare check and the wait for the mail,
\* and the state each assigns when its selects, clicks and typing went
\* through (lines 173-209).
FormStep ==
    [email_entry |-> [to |-> "EMAIL_ENTRY", next |-> "continue"],
     continue    |-> [to |-> "CONTINUE_CLICKED", next |-> "form"],
     form        |-> [to |-> "REGISTRATION_FORM", next |-> "submit"],
     submit      |-> [to |-> "FORM_SUBMITTED", next |-> "waiting"]]

\* One of the page steps went through.
CaFormStepOk ==
    /\ a_pc \in DOMAIN FormStep
    /\ state' = FormStep[a_pc].to
    /\ a_pc' = FormStep[a_pc].next
    /\ UNCHANGED <<a_existing, a_verify_link, a_ret, a_before, a_shot, cf_pc, cf_attempt, cf_result>>
    /\ UNCHANGED <<lookupVars, typingVars, delayVars, gridVars, runnerVars, tileVars, retryVars, transitionVars, gmailVars>>

\* A select, find, click or type_text of a page step raised.
CaFormStepRaises ==
    /\ a_pc \in DOMAIN FormStep
    /\ a_pc' = "except"
    /\ UNCHANGED <<a_existing, a_verify_link, a_ret, a_before, a_shot, cf_pc, cf_attempt, cf_result>>
    /\ UNCHANGED <<lookupVars, typingVars, delayVars, gridVars, runnerVars, tileVars, retryVars, browserVars, transitionVars, gmailVars>>

\* Lines 212-221: self.state = WAITING_EMAIL, then wait_for_link is called
\* with the snapshot as existing_links.
CaWaitEmail ==
    /\ a_pc = "waiting"
    /\ state' = "WAITING_EMAIL"
    /\ w_pc' = [w_pc EXCEPT ![Me] = "start"]
    /\ w_args' = [w_args EXCEPT ![Me] = [variant |-> "link", timeout |-> LINK_TIMEOUT,
                                         poll_interval |-> LINK_POLL_INTERVAL]]
    /\ w_existing' = [w_existing EXCEPT ![Me] = [given |-> TRUE, val |-> a_existing]]
    /\ w_elapsed' = [w_elapsed EXCEPT ![Me] = 0]
    /\ w_result' = [w_result EXCEPT ![Me] = NoResult]
    /\ a_pc' = "wait_link"
    /\ UNCHANGED <<a_existing, a_verify_link, a_ret, a_before, a_shot, cf_pc, cf_attempt, cf_result>>
    /\ UNCHANGED <<mailbox, max_connections, semaphore, f_pc, f_limit, f_ret, th, orphans, g_pc,
                   g_ret, stopwatch, w_hist>>
    /\ UNCHANGED <<lookupVars, typingVars, delayVars, gridVars, runnerVars, tileVars, retryVars, transitionVars>>

\* Lines 214-233: wait_for_link is back; no link ends the run, a link is
\* what the VERIFICATION_LINK transition navigates to.
CaLink ==
    /\ a_pc = "wait_link"
    /\ w_pc[Me] = "done"
    /\ CASE w_result[Me].kind = "raised" ->
                /\ a_pc' = "except"
                /\ UNCHANGED <<a_verify_link, a_ret, transitionVars>>
         [] w_result[Me].kind = "None" ->
                /\ a_ret' = Ret(FALSE, "Verification email not received", "")
                /\ a_pc' = "returned"
                /\ UNCHANGED <<a_verify_link, transitionVars>>
         [] w_result[Me].kind = "item" ->
                /\ a_verify_link' = w_result[Me].item
                /\ CallTransition(state, "VERIFICATION_LINK")
                /\ a_pc' = "verify"
                /\ UNCHANGED a_ret
    /\ w_pc' = [w_pc EXCEPT ![Me] = "idle"]
    /\ w_args' = [w_args EXCEPT ![Me] = NoArgs]
    /\ w_existing' = [w_existing EXCEPT ![Me] = NoExisting]
    /\ w_elapsed' = [w_elapsed EXCEPT ![Me] = 0]
    /\ w_result' = [w_result EXCEPT ![Me] = NoResult]
    /\ UNCHANGED <<a_existing, a_before, a_shot, cf_pc, cf_attempt, cf_result>>
    /\ UNCHANGED <<mailbox, max_connections, semaphore, f_pc, f_limit, f_ret, th, orphans, g_pc,
                   g_ret, stopwatch, w_hist>>
    /\ UNCHANGED <<lookupVars, typingVars, delayVars, gridVars, runnerVars, tileVars, retryVars, browserVars>>

\* The success message returned with a false flag.
VerifiedRetFalse == Ret(FALSE, "Account created and verified", "")

\* Line 241: return True, "Account created and verified".
VerifiedRet == Ret(TRUE, "Account created and verified", "")

\* Lines 229-241: the VERIFICATION_LINK transition is back; delay("page"),
\* self.state = COMPLETE and success.
CaVerify ==
    /\ a_pc = "verify"
    /\ tt_pc = "done"
    /\ IF tt_result = "False"
       THEN /\ a_ret' = Ret(FALSE, "Failed to navigate to verification link", "")
            /\ UNCHANGED state
       ELSE /\ state' = "COMPLETE"
            /\ a_ret' = VerifiedRet
    /\ a_pc' = "returned"
    /\ TransitionRead
    /\ UNCHANGED <<a_existing, a_verify_link, a_before, a_shot, cf_pc, cf_attempt, cf_result>>
    /\ UNCHANGED <<lookupVars, typingVars, delayVars, gridVars, runnerVars, tileVars, retryVars, gmailVars>>

\* What take_screenshot does (browser.py lines 157-162): nothing without a
\* tab, else save_screenshot, whose own error is swallowed.
ScreenshotOutcomes == {"no_tab", "saved", "failed"}

\* The exception goes on to the caller of create_account.
CaExceptPropagates ==
    /\ a_pc = "except"
    /\ a_pc' = "raised"
    /\ UNCHANGED <<a_existing, a_verify_link, a_ret, a_before, a_shot, cf_pc, cf_attempt, cf_result>>
    /\ UNCHANGED <<lookupVars, typingVars, delayVars, gridVars, runnerVars, tileVars, retryVars, browserVars, transitionVars, gmailVars>>

\* Lines 243-246: the except clause: self.state = FAILED, the screenshot
\* (its own errors swallowed), and the error with the state's name.
CaExcept ==
    /\ a_pc = "except"
    /\ state' = "FAILED"
    /\ a_shot' \in ScreenshotOutcomes
    /\ a_ret' = Ret(FALSE, "str(e)", "FAILED")
    /\ a_pc' = "returned"
    /\ UNCHANGED <<a_existing, a_verify_link, a_before, cf_pc, cf_attempt, cf_result>>
    /\ UNCHANGED <<lookupVars, typingVars, delayVars, gridVars, runnerVars, tileVars, retryVars, transitionVars, gmailVars>>

\* The link the driver has navigated to: the action of the
\* VERIFICATION_LINK transition, lambda: self.navigate(verify_link), ran.
Navigated ==
    IF tt_target = "VERIFICATION_LINK" /\ ActionCalls(tt_trace) # << >>
    THEN {a_verify_link} ELSE {}

(***************************************************************************)
(* examples/run_topps_concurrent.py: TileManager                            *)
(***************************************************************************)
\* The largest pool tried.
MaxTiles == 3
\* The sessions sharing the pool; one more than the largest pool.
NumSessions == 4

Sessions == 1..NumSessions

\* list(range(n))
ListRange(n) == [i \in 1..n |-> i - 1]

\* x put in its place in an ascending list.
RECURSIVE Insert(_, _)
Insert(x, sorted) ==
    IF sorted = << >> THEN <<x>>
    ELSE IF x <= Head(sorted) THEN <<x>> \o sorted
    ELSE <<Head(sorted)>> \o Insert(x, Tail(sorted))

\* A sort that leaves the list as it is.
NoSort(seq) == seq

\* list.sort(): the elements in ascending order.
RECURSIVE Sort(_)
Sort(seq) == IF seq = << >> THEN << >> ELSE Insert(Head(seq), Sort(Tail(seq)))

\* TileManager(max_tiles): every slot in the pool, no session holding one.
TileManagerInit(max_tiles) ==
    /\ tm_max_tiles = max_tiles
    /\ tm_available = ListRange(max_tiles)
    /\ tm_released = << >>
    /\ s_slot = [s \in Sessions |-> -1]

TilesIdle == TileManagerInit(1)

\* Lines 94-99: acquire() by a session that holds no slot: the head of the
\* pool, or 0 when the pool is empty.
Acquire(s) ==
    /\ IF tm_available # << >>
       THEN /\ s_slot' = [s_slot EXCEPT ![s] = Head(tm_available)]
            /\ tm_available' = Tail(tm_available)
       ELSE /\ s_slot' = [s_slot EXCEPT ![s] = 0]
            /\ UNCHANGED tm_available
    /\ tm_released' = << >>
    /\ UNCHANGED tm_max_tiles

\* Lines 104-106: the pool after release(slot).
Released(slot) ==
    IF slot \notin Range(tm_available) /\ slot < tm_max_tiles
    THEN Sort(Append(tm_available, slot))
    ELSE tm_available

\* A session that holds no slot calls acquire().
TileAcquire(s) ==
    /\ s_slot[s] = -1
    /\ Acquire(s)
    /\ UNCHANGED othersThanTiles

\* Lines 101-106: release(slot) by the session that holds slot: appended and
\* the pool sorted, unless the slot is in the pool already or out of range.
Release(s) ==
    /\ LET slot == s_slot[s] IN
        /\ tm_available' = Released(slot)
        /\ tm_released' = Append(tm_released, slot)
    /\ s_slot' = [s_slot EXCEPT ![s] = -1]
    /\ UNCHANGED tm_max_tiles

\* A session that holds a slot calls release(slot).
TileRelease(s) ==
    /\ s_slot[s] # -1
    /\ Release(s)
    /\ UNCHANGED othersThanTiles

\* The integers release() is given by a caller that need not hold the slot:
\* from MaxStray below 0 to MaxStray past the last slot of the pool; and the
\* most releases tried between two acquires.
MaxStray == 2
MaxReleasesRun == 3
Slots == (0 - MaxStray)..(MaxTiles - 1 + MaxStray)

\* Lines 94-99: acquire() by a caller the model does not follow.
PoolAcquire ==
    /\ tm_available' = IF tm_available # << >> THEN Tail(tm_available) ELSE tm_available
    /\ tm_released' = << >>
    /\ UNCHANGED <<tm_max_tiles, s_slot>>
    /\ UNCHANGED othersThanTiles

\* Lines 101-106: release(slot) with any integer.
PoolRelease(slot) ==
    /\ Len(tm_released) < MaxReleasesRun
    /\ tm_available' = Released(slot)
    /\ tm_released' = Append(tm_released, slot)
    /\ UNCHANGED <<tm_max_tiles, s_slot>>
    /\ UNCHANGED othersThanTiles

(***************************************************************************)
(* delays.py: random_delay.  Durations are whole tenths of a second; the     *)
(* slept duration is kept as the fraction the code divides.                  *)
(***************************************************************************)
MaxDelayBound == 2
MaxSpeed == 2
MaxExtra == 1

\* DELAYS["action"] = (0.8, 2.0), in tenths of a second.
DELAYS_ACTION_MIN == 8
DELAYS_ACTION_MAX == 20
DELAYS_ACTION == [min |-> DELAYS_ACTION_MIN, max |-> DELAYS_ACTION_MAX]

\* The modes a profile tried configures, and the modes random_delay is
\* called with: "page" is a mode of DELAYS the profile leaves out, "nap" is
\* no mode at all.
ProfileModes == {"micro", "action"}
CalledModes == {"micro", "action", "page", "nap"}

\* (min, max) pairs with 0 <= min <= max.
DelayBounds == {b \in [min : 0..MaxDelayBound, max : 0..MaxDelayBound] : b.min <= b.max}

\* How random.random() < extra_delay_probability can come out: never for a
\* probability of 0, always for 1 or more, either way in between.
ExtraProbabilities == {"zero", "between", "one"}

ExtraTriggers(probability) ==
    CASE probability = "zero" -> {FALSE}
      [] probability = "one" -> {TRUE}
      [] OTHER -> BOOLEAN

DelayProfiles ==
    [delays : [ProfileModes -> DelayBounds],
     speed_multiplier : 1..MaxSpeed,
     extra_delay_probability : ExtraProbabilities,
     extra_delay_range : [lo : (-MaxExtra)..MaxExtra, hi : (-MaxExtra)..MaxExtra]]

\* random.uniform(a, b) is a + (b - a) * random(): a value between the two,
\* whichever is larger.
Uniform(a, b) == Min(a, b)..Max(a, b)

\* Line 31: p.delays.get(mode, DELAYS["action"]).
BoundFor(profile, mode) ==
    IF mode \in DOMAIN profile.delays THEN profile.delays[mode] ELSE DELAYS_ACTION

\* Line 33: mode != "micro" and random.random() < p.extra_delay_probability.
ExtraApplies(mode, triggered) == mode # "micro" /\ triggered

DelayIdle ==
    /\ d_mode = "action"
    /\ d_profile = [delays |-> [mo \in ProfileModes |-> [min |-> 0, max |-> 0]], speed_multiplier |-> 1,
                     extra_delay_probability |-> "zero", extra_delay_range |-> [lo |-> 0, hi |-> 0]]
    /\ d_pc = "idle"
    /\ d_extra = 0
    /\ d_slept = [num |-> 0, den |-> 1]

\* random_delay(mode, profile) is called.
DelayCalled ==
    /\ d_mode \in CalledModes
    /\ d_profile \in DelayProfiles
    /\ d_pc = "called"
    /\ d_extra = 0
    /\ d_slept = [num |-> 0, den |-> 1]

\* Lines 30-36: the bound is looked up, the extra is drawn and added when
\* the test says so, the duration is drawn and divided, and sleep begins.
RandomDelay ==
    /\ d_pc = "called"
    /\ LET b == BoundFor(d_profile, d_mode) IN
       \E triggered \in ExtraTriggers(d_profile.extra_delay_probability) :
       \E extra \in Uniform(d_profile.extra_delay_range.lo, d_profile.extra_delay_range.hi) :
       LET applied == IF ExtraApplies(d_mode, triggered) THEN extra ELSE 0 IN
       \E u \in Uniform(b.min, b.max + applied) :
            /\ d_extra' = applied
            /\ d_slept' = [num |-> u, den |-> d_profile.speed_multiplier]
    /\ d_pc' = "sleeping"
    /\ UNCHANGED <<d_mode, d_profile>>
    /\ UNCHANGED othersThanDelay

\* Line 36: asyncio.sleep returns.
DelayWake ==
    /\ d_pc = "sleeping"
    /\ d_pc' = "done"
    /\ UNCHANGED <<d_mode, d_profile, d_extra, d_slept>>
    /\ UNCHANGED othersThanDelay

(***************************************************************************)
(* browser.py: Browser.select and Browser.find, the lookup of nodriver under *)
(* asyncio.wait_for as the operation of retry().  Whole seconds.             *)
(***************************************************************************)
MaxLookupTimeout == 2

LookupIdle ==
    /\ l_kind = "none"
    /\ l_timeout = 0
    /\ l_clock = 0
    /\ l_trace = << >>

\* Browser.select(selector, timeout) or Browser.find(text, timeout=timeout)
\* is called: retry() is entered with the lookup as its operation and no
\* observer.
LookupCalled ==
    /\ RetryInit
    /\ ~r_cfg.on_retry
    /\ l_kind \in {"select", "find"}
    /\ l_timeout \in 1..MaxLookupTimeout
    /\ l_clock = 0
    /\ l_trace = << >>

\* What the lookup actions leave alone besides the retry loop.
othersThanRetryAndLookup ==
    <<browserVars, transitionVars, gmailVars, accountVars, tileVars, runnerVars, gridVars, delayVars,
      typingVars>>

\* A second goes by while asyncio.wait_for awaits tab.select / tab.find.
LookupTick ==
    /\ l_kind # "none"
    /\ r_pc = "try"
    /\ l_clock < l_timeout
    /\ l_clock' = l_clock + 1
    /\ UNCHANGED <<l_kind, l_timeout, l_trace>>
    /\ UNCHANGED <<retryVars, othersThanRetryAndLookup>>

\* The lookup gives the element before wait_for gives up: select_with_timeout
\* returns it and retry() returns it.
LookupFound ==
    /\ l_kind # "none"
    /\ l_clock <= l_timeout
    /\ RetryReturn
    /\ l_trace' = Append(l_trace, [how |-> "found", after |-> l_clock])
    /\ l_clock' = 0
    /\ UNCHANGED <<l_kind, l_timeout>>
    /\ UNCHANGED othersThanRetryAndLookup

\* A timeout that retry() does not catch: the call fails with it at once.
LookupTimesOutFatal ==
    /\ l_kind # "none"
    /\ l_clock = l_timeout
    /\ RetryCatch(0)
    /\ l_trace' = Append(l_trace, [how |-> "timeout", after |-> l_clock])
    /\ l_clock' = 0
    /\ UNCHANGED <<l_kind, l_timeout>>
    /\ UNCHANGED othersThanRetryAndLookup

\* `timeout` seconds are over: wait_for cancels the lookup and raises
\* asyncio.TimeoutError, an Exception, into the except block of retry().
LookupTimesOut ==
    /\ l_kind # "none"
    /\ l_clock = l_timeout
    /\ RetryCatch(r_cfg.max_retries)
    /\ l_trace' = Append(l_trace, [how |-> "timeout", after |-> l_clock])
    /\ l_clock' = 0
    /\ UNCHANGED <<l_kind, l_timeout>>
    /\ UNCHANGED othersThanRetryAndLookup

\* The lookup raises an error of its own, at any moment before the timeout.
LookupRaises ==
    /\ l_kind # "none"
    /\ l_clock <= l_timeout
    /\ RetryCatch(r_cfg.max_retries)
    /\ l_trace' = Append(l_trace, [how |-> "error", after |-> l_clock])
    /\ l_clock' = 0
    /\ UNCHANGED <<l_kind, l_timeout>>
    /\ UNCHANGED othersThanRetryAndLookup

(***************************************************************************)
(* typing.py: human_type with the default TypingConfig.  Durations are       *)
(* whole hundredths of a second; a uniform draw is one of its two ends.      *)
(***************************************************************************)
MaxTextLen == 5

\* SPEED_PROFILES["normal"] and the defaults of TypingConfig.
BASE_MIN == 5
BASE_MAX == 12
PUNCTUATION_DELAY_MIN == 5
PUNCTUATION_DELAY_MAX == 15
PAUSE_DURATION_MIN == 20
PAUSE_DURATION_MAX == 50
ACCELERATION_THRESHOLD == 3
ACCELERATION_PERCENT == 85

\* A letter and a character of punctuation_chars.
Chars == {"a", "."}
punctuation_chars == {"."}

RECURSIVE SeqsUpTo(_, _)
SeqsUpTo(S, n) ==
    IF n = 0 THEN {<< >>}
    ELSE SeqsUpTo(S, n - 1) \cup {Append(q, c) : q \in {t \in SeqsUpTo(S, n - 1) : Len(t) = n - 1}, c \in S}

Texts == SeqsUpTo(Chars, MaxTextLen)

\* Lines 33-42: the delays that can come out for character `char` at index i.
KeyDelays(i, char, speed_multiplier) ==
    LET based == {BASE_MIN, BASE_MAX}
        punctuated == IF char \in punctuation_chars
                      THEN {d + e : d \in based, e \in {PUNCTUATION_DELAY_MIN, PUNCTUATION_DELAY_MAX}}
                      ELSE based
        paused == punctuated \cup {d + e : d \in punctuated, e \in {PAUSE_DURATION_MIN, PAUSE_DURATION_MAX}}
        plain == {[num |-> d, den |-> speed_multiplier] : d \in paused}
        accelerated == {[num |-> d * ACCELERATION_PERCENT, den |-> 100 * speed_multiplier] : d \in paused}
    IN  IF i > ACCELERATION_THRESHOLD THEN plain \cup accelerated ELSE plain

TypingIdle ==
    /\ h_text = << >>
    /\ h_speed_multiplier = 1
    /\ h_pc = "idle"
    /\ h_i = 0
    /\ h_delay = [num |-> 0, den |-> 1]
    /\ h_trace = << >>

\* human_type(element, text, speed_multiplier=...) is called.
TypingCalled ==
    /\ h_text \in Texts
    /\ h_speed_multiplier \in 1..MaxSpeed
    /\ h_pc = "send"
    /\ h_i = 0
    /\ h_delay = [num |-> 0, den |-> 1]
    /\ h_trace = << >>

\* Line 31: the loop has no character left and human_type returns.
TypeReturn ==
    /\ h_pc = "send"
    /\ h_i = Len(h_text)
    /\ h_pc' = "done"
    /\ UNCHANGED <<h_text, h_speed_multiplier, h_i, h_delay, h_trace>>
    /\ UNCHANGED othersThanTyping

\* A loop body that sends the character and goes on without sleeping.
TypeSendKeysNoSleep ==
    /\ h_pc = "send"
    /\ h_i < Len(h_text)
    /\ h_trace' = Append(h_trace, [kind |-> "send", i |-> h_i, char |-> h_text[h_i + 1]])
    /\ h_i' = h_i + 1
    /\ UNCHANGED <<h_text, h_speed_multiplier, h_pc, h_delay>>
    /\ UNCHANGED othersThanTyping

\* Lines 32-43: send_keys(char) returns, the delay is computed and
\* asyncio.sleep(delay / speed_multiplier) is awaited.
TypeSendKeys ==
    /\ h_pc = "send"
    /\ h_i < Len(h_text)
    /\ h_trace' = Append(h_trace, [kind |-> "send", i |-> h_i, char |-> h_text[h_i + 1]])
    /\ h_delay' \in KeyDelays(h_i, h_text[h_i + 1], h_speed_multiplier)
    /\ h_pc' = "sleeping"
    /\ UNCHANGED <<h_text, h_speed_multiplier, h_i>>
    /\ UNCHANGED othersThanTyping

\* Line 32: send_keys(char) raises, and human_type with it.
TypeSendKeysRaises ==
    /\ h_pc = "send"
    /\ h_i < Len(h_text)
    /\ h_pc' = "raised"
    /\ UNCHANGED <<h_text, h_speed_multiplier, h_i, h_delay, h_trace>>
    /\ UNCHANGED othersThanTyping

\* Line 43: the sleep is over; the loop goes to the next character.
TypeWake ==
    /\ h_pc = "sleeping"
    /\ h_trace' = Append(h_trace, [kind |-> "slept", i |-> h_i, char |-> h_text[h_i + 1]])
    /\ h_i' = h_i + 1
    /\ h_pc' = "send"
    /\ UNCHANGED <<h_text, h_speed_multiplier, h_delay>>
    /\ UNCHANGED othersThanTyping

(***************************************************************************)
(* examples/run_topps_concurrent.py: TileManager's grid and get_position     *)
(***************************************************************************)
MaxColumns == 3
MaxScreenWidth == 4
MaxScreenHeight == 3

\* The defaults of TileManager.__init__.
DEFAULT_COLUMNS == 4
DEFAULT_SCREEN_WIDTH == 1920
DEFAULT_SCREEN_HEIGHT == 1080

\* Line 87: min(columns, max_tiles).
Columns(max_tiles, columns) == Min(columns, max_tiles)

\* Rows by floor division, which is one row short when the last row is partial.
RowsFloor(max_tiles, columns) == Max(1, max_tiles \div columns)

\* Line 88: max(1, (max_tiles + self.columns - 1) // self.columns).
Rows(max_tiles, columns) == Max(1, (max_tiles + columns - 1) \div columns)

NoPosition == [x |-> -1, y |-> -1, w |-> -1, h |-> -1]

\* Lines 84-90: the fields __init__ computes from its arguments.
GridInit(max_tiles, columns, screen_width, screen_height) ==
    /\ tm_columns = Columns(max_tiles, columns)
    /\ tm_rows = Rows(max_tiles, Columns(max_tiles, columns))
    /\ tm_window_width = screen_width \div Columns(max_tiles, columns)
    /\ tm_window_height = screen_height \div Rows(max_tiles, Columns(max_tiles, columns))
    /\ p_args = [columns |-> columns, screen_width |-> screen_width, screen_height |-> screen_height]
    /\ p_ret = [slot \in 0..(MaxTiles - 1) |-> NoPosition]

\* The grid of TileManager(max_tiles=1), as TilesIdle builds it.
GridIdle == GridInit(1, DEFAULT_COLUMNS, DEFAULT_SCREEN_WIDTH, DEFAULT_SCREEN_HEIGHT)

\* Lines 108-114: get_position(slot), as ((x, y), (w, h)) flattened.
get_position(slot) ==
    LET col == slot % tm_columns
        row == (slot \div tm_columns) % tm_rows
    IN  [x |-> col * tm_window_width, y |-> row * tm_window_height,
         w |-> tm_window_width, h |-> tm_window_height]

\* A caller asks for the position of a slot of the pool.
GetPosition(slot) ==
    /\ slot \in 0..(tm_max_tiles - 1)
    /\ p_ret[slot] = NoPosition
    /\ p_ret' = [p_ret EXCEPT ![slot] = get_position(slot)]
    /\ UNCHANGED <<tm_columns, tm_rows, tm_window_width, tm_window_height, p_args>>
    /\ UNCHANGED othersThanGrid

(***************************************************************************)
(* examples/run_topps_concurrent.py: create_single_account and main          *)
(***************************************************************************)
\* The accounts main gathers a task for, and the largest MAX_CONCURRENT tried.
NumTasks == 3
MaxConcurrentTried == 2
Tasks == 1..NumTasks

\* A tile pool one slot smaller than the session semaphore.
TilesFor1Less(max_concurrent) == max_concurrent - 1

\* Line 199: TileManager(max_tiles=max_concurrent).
TilesFor(max_concurrent) == max_concurrent

\* The outcomes of a session: create_account returned (True, ...) or
\* (False, ...), or start or create_account raised.
Outcomes == {"success", "failure", "exception"}

\* No runner: nothing holds the semaphore, no task exists.
RunnerIdle ==
    /\ k_max = 1
    /\ k_sem = 1
    /\ k_pc = [s \in Sessions |-> "none"]
    /\ k_result = [s \in Sessions |-> "none"]
    /\ k_fetches = [s \in Sessions |-> 0]
    /\ k_gathered = FALSE

\* Lines 198-211: main builds the semaphore and the TileManager from
\* max_concurrent and gathers one task per account.
RunnerInitOf(max_concurrent, tasks) ==
    /\ k_max = max_concurrent
    /\ k_sem = max_concurrent
    /\ TileManagerInit(TilesFor(max_concurrent))
    /\ k_pc = [s \in Sessions |-> IF s \in tasks THEN "queued" ELSE "none"]
    /\ k_result = [s \in Sessions |-> "none"]
    /\ k_fetches = [s \in Sessions |-> 0]
    /\ k_gathered = FALSE

RunnerInit(max_concurrent) == RunnerInitOf(max_concurrent, Tasks)

\* Lines 125-138: the task gets a permit of the semaphore, acquires its
\* tile and builds its generator, up to `await generator.start()`.
RunEnter(s) ==
    /\ k_pc[s] = "queued"
    /\ k_sem > 0
    /\ k_sem' = k_sem - 1
    /\ Acquire(s)
    /\ k_pc' = [k_pc EXCEPT ![s] = "start"]
    /\ UNCHANGED <<k_max, k_result, k_fetches, k_gathered>>
    /\ UNCHANGED othersThanRunner

\* Line 140: start() returned; create_account is awaited.
RunStartOk(s) ==
    /\ k_pc[s] = "start"
    /\ k_pc' = [k_pc EXCEPT ![s] = "create"]
    /\ UNCHANGED <<k_max, k_sem, k_result, k_fetches, k_gathered>>
    /\ UNCHANGED <<tileVars, othersThanRunner>>

\* Lines 140, 154-160: start() raised; the except clause makes the result.
RunStartRaises(s) ==
    /\ k_pc[s] = "start"
    /\ k_result' = [k_result EXCEPT ![s] = "exception"]
    /\ k_pc' = [k_pc EXCEPT ![s] = "stop"]
    /\ UNCHANGED <<k_max, k_sem, k_fetches, k_gathered>>
    /\ UNCHANGED <<tileVars, othersThanRunner>>

\* Lines 141-153: create_account returned (success, message).
RunCreateReturns(s) ==
    /\ k_pc[s] = "create"
    /\ \E success \in BOOLEAN :
            k_result' = [k_result EXCEPT ![s] = IF success THEN "success" ELSE "failure"]
    /\ k_pc' = [k_pc EXCEPT ![s] = "stop"]
    /\ k_fetches' = [k_fetches EXCEPT ![s] = 0]
    /\ UNCHANGED <<k_max, k_sem, k_gathered>>
    /\ UNCHANGED <<tileVars, othersThanRunner>>

\* Lines 141-160: create_account raised; the except clause makes the result.
RunCreateRaises(s) ==
    /\ k_pc[s] = "create"
    /\ k_result' = [k_result EXCEPT ![s] = "exception"]
    /\ k_pc' = [k_pc EXCEPT ![s] = "stop"]
    /\ k_fetches' = [k_fetches EXCEPT ![s] = 0]
    /\ UNCHANGED <<k_max, k_sem, k_gathered>>
    /\ UNCHANGED <<tileVars, othersThanRunner>>

\* Line 162 and browser.py 103-111: the finally block awaits stop(), which
\* returns at once when start() made no browser and otherwise swallows the
\* browser's error and sleeps a second; other tasks run meanwhile.
RunStop(s) ==
    /\ k_pc[s] = "stop"
    /\ k_pc' = [k_pc EXCEPT ![s] = "release"]
    /\ UNCHANGED <<k_max, k_sem, k_result, k_fetches, k_gathered>>
    /\ UNCHANGED <<tileVars, othersThanRunner>>

\* A finally block that gives the tile back only when no exception came.
RunReleaseUnlessRaised(s) ==
    /\ k_pc[s] = "release"
    /\ IF k_result[s] = "exception" THEN UNCHANGED tileVars ELSE Release(s)
    /\ k_sem' = k_sem + 1
    /\ k_pc' = [k_pc EXCEPT ![s] = "done"]
    /\ UNCHANGED <<k_max, k_result, k_fetches, k_gathered>>
    /\ UNCHANGED othersThanRunner

\* Line 163 and the end of `async with semaphore`: release(tile_slot), then
\* the permit goes back and the task returns its result, with no await that
\* suspends in between.
RunRelease(s) ==
    /\ k_pc[s] = "release"
    /\ Release(s)
    /\ k_sem' = k_sem + 1
    /\ k_pc' = [k_pc EXCEPT ![s] = "done"]
    /\ UNCHANGED <<k_max, k_result, k_fetches, k_gathered>>
    /\ UNCHANGED othersThanRunner

\* The most mailbox fetches one create_account makes: the snapshot of
\* get_existing_links and the rounds of wait_for_link, each of which adds a
\* second at least to elapsed.
MaxFetches == 2

\* The accounts of the runs followed to their end, one more than a gate of
\* one permit lets in.
NumAccounts == 2
Accounts == 1..NumAccounts

\* What the mailbox steps of a task leave alone: all but the client's gate
\* and the task.
gateFrame ==
    <<mailbox, max_connections, f_pc, f_limit, f_ret, th, orphans, g_pc, g_ret, w_pc, w_args,
      w_existing, w_elapsed, w_result, stopwatch, w_hist, retryVars, browserVars, transitionVars,
      accountVars, tileVars, gridVars, delayVars, typingVars, lookupVars>>

\* topps.py 136, 214 and gmail.py 214: create_account calls
\* get_existing_links or a round of wait_for_link comes to its fetch;
\* _fetch_links waits at `async with self._semaphore`.
RunMailCall(s) ==
    /\ k_pc[s] = "create"
    /\ k_fetches[s] < MaxFetches
    /\ k_fetches' = [k_fetches EXCEPT ![s] = k_fetches[s] + 1]
    /\ k_pc' = [k_pc EXCEPT ![s] = "gate"]
    /\ UNCHANGED <<k_max, k_sem, k_result, k_gathered>>
    /\ UNCHANGED <<semaphore, gateFrame>>

\* gmail.py 214-216: the gate has a permit; the task takes it and awaits the
\* fetch under asyncio.wait_for.
RunMailAcquire(s) ==
    /\ k_pc[s] = "gate"
    /\ semaphore > 0
    /\ semaphore' = semaphore - 1
    /\ k_pc' = [k_pc EXCEPT ![s] = "fetch"]
    /\ UNCHANGED <<k_max, k_sem, k_result, k_fetches, k_gathered>>
    /\ UNCHANGED gateFrame

\* gmail.py 214-221: the fetch returned its links, or timed out and [] is
\* returned; the permit goes back and create_account goes on.
RunFetchReturns(s) ==
    /\ k_pc[s] = "fetch"
    /\ semaphore' = semaphore + 1
    /\ k_pc' = [k_pc EXCEPT ![s] = "create"]
    /\ UNCHANGED <<k_max, k_sem, k_result, k_fetches, k_gathered>>
    /\ UNCHANGED gateFrame

\* A fetch whose error leaves the gate without giving the permit back.
RunFetchRaisesKeepsPermit(s) ==
    /\ k_pc[s] = "fetch"
    /\ k_result' = [k_result EXCEPT ![s] = "failure"]
    /\ k_pc' = [k_pc EXCEPT ![s] = "stop"]
    /\ k_fetches' = [k_fetches EXCEPT ![s] = 0]
    /\ UNCHANGED <<k_max, k_sem, k_gathered>>
    /\ UNCHANGED <<semaphore, gateFrame>>

\* gmail.py 214-221, topps.py 238-247: the fetch raised; the permit goes
\* back as the error leaves `async with`, and the except clause of
\* create_account returns (False, message).
RunFetchRaises(s) ==
    /\ k_pc[s] = "fetch"
    /\ semaphore' = semaphore + 1
    /\ k_result' = [k_result EXCEPT ![s] = "failure"]
    /\ k_pc' = [k_pc EXCEPT ![s] = "stop"]
    /\ k_fetches' = [k_fetches EXCEPT ![s] = 0]
    /\ UNCHANGED <<k_max, k_sem, k_gathered>>
    /\ UNCHANGED gateFrame

\* Line 211: every task is over; asyncio.gather gives main their results.
RunGather ==
    /\ ~k_gathered
    /\ \A s \in Sessions : k_pc[s] \in {"none", "done"}
    /\ k_gathered' = TRUE
    /\ UNCHANGED <<k_max, k_sem, k_pc, k_result, k_fetches>>
    /\ UNCHANGED <<tileVars, othersThanRunner>>

(***************************************************************************)
(* The specifications                                                       *)
(***************************************************************************)
\* A client nobody calls, its mailbox empty.
GmailUnused == mailbox = << >> /\ GmailIdle(1)

\* create_account is called on a generator in any state, with a mailbox that
\* is empty or holds an old verification link A.
AccountCalled ==
    /\ a_pc = "start"
    /\ a_existing = {}
    /\ a_verify_link = ""
    /\ a_ret = NoRet
    /\ a_before = {}
    /\ a_shot = "none"
    /\ cf_pc = "idle"
    /\ cf_attempt = 0
    /\ cf_result = FALSE
    /\ state \in ToppsState
    /\ mailbox \in {<< >>, <<"A">>}
    /\ GmailIdle(1)

InitAccount == AccountCalled /\ TransitionIdle /\ RetryIdle /\ TilesIdle /\ RunnerIdle /\ GridIdle /\ DelayIdle /\ TypingIdle /\ LookupIdle
NextAccount ==
    \/ CaStart \/ CaSnapshot \/ CaHomepage \/ CaCf1 \/ CaLogin \/ CaCf2
    \/ CaFormStepOk \/ CaFormStepRaises \/ CaWaitEmail \/ CaLink \/ CaVerify \/ CaExcept
    \/ CfPassed \/ CfNotPassed
    \/ TtActionOk \/ TtActionRaises \/ TtValidate \/ TtCooldown
    \/ FetchAcquire(Me) \/ ThreadConnectOk(Me) \/ ThreadConnectRaises(Me)
    \/ ThreadFetchOk(Me) \/ ThreadFetchRaises(Me) \/ FetchReturn(Me) \/ FetchTimeout(Me)
    \/ OrphanConnectOk \/ OrphanConnectRaises \/ OrphanLogout
    \/ GetExistingReturn(Me) \/ WfStart(Me) \/ WfLoop(Me) \/ WfScan(Me)
    \/ MailArrives
SpecAccount == InitAccount /\ [][NextAccount]_vars

\* retry() alone, from every configuration.
InitRetry == RetryInit /\ BrowserIdle /\ TransitionIdle /\ GmailUnused /\ AccountIdle /\ TilesIdle /\ RunnerIdle /\ GridIdle /\ DelayIdle /\ TypingIdle /\ LookupIdle
SpecRetry == InitRetry /\ [][RetryNext]_vars

\* One _transition_to call.
InitTransition == TransitionInit /\ RetryIdle /\ GmailUnused /\ AccountIdle /\ TilesIdle /\ RunnerIdle /\ GridIdle /\ DelayIdle /\ TypingIdle /\ LookupIdle
SpecTransition == InitTransition /\ [][TransitionNext]_vars

\* Sessions acquiring and releasing slots of one pool of any size tried.
InitTiles ==
    /\ \E n \in 1..MaxTiles :
            TileManagerInit(n) /\ GridInit(n, DEFAULT_COLUMNS, DEFAULT_SCREEN_WIDTH, DEFAULT_SCREEN_HEIGHT)
    /\ RetryIdle /\ BrowserIdle /\ TransitionIdle /\ GmailUnused /\ AccountIdle /\ RunnerIdle /\ DelayIdle /\ TypingIdle /\ LookupIdle
NextTiles ==
    \/ \E s \in Sessions : TileAcquire(s)
    \/ \E s \in Sessions : TileRelease(s)
SpecTiles == InitTiles /\ [][NextTiles]_vars

\* acquire() and release(slot) called in any order on one pool of any size
\* tried, release with any integer tried.
InitPool == InitTiles
NextPool ==
    \/ PoolAcquire
    \/ \E slot \in Slots : PoolRelease(slot)
SpecPool == InitPool /\ [][NextPool]_vars

\* main with any max_concurrent tried and more accounts than the largest.
InitRunner ==
    /\ \E mc \in 1..MaxConcurrentTried :
            RunnerInit(mc) /\ GridInit(mc, DEFAULT_COLUMNS, DEFAULT_SCREEN_WIDTH, DEFAULT_SCREEN_HEIGHT)
    /\ RetryIdle /\ BrowserIdle /\ TransitionIdle /\ GmailUnused /\ AccountIdle /\ DelayIdle /\ TypingIdle /\ LookupIdle

\* main with any max_concurrent and any max_connections tried: the tasks
\* with the mailbox fetches of their create_account, and the gather.  Every
\* step that is an await of the event loop, of the browser or of the mailbox
\* under its timeout comes to an end; a task waiting for a permit gets it
\* once one stays free.
InitMain ==
    /\ \E mc \in 1..MaxConcurrentTried :
            RunnerInitOf(mc, Accounts) /\ GridInit(mc, DEFAULT_COLUMNS, DEFAULT_SCREEN_WIDTH, DEFAULT_SCREEN_HEIGHT)
    /\ mailbox = << >>
    /\ \E n \in 1..MaxConnectionsTried : GmailIdle(n)
    /\ RetryIdle /\ BrowserIdle /\ TransitionIdle /\ AccountIdle /\ DelayIdle /\ TypingIdle /\ LookupIdle
NextMain ==
    \/ \E s \in Accounts : RunEnter(s)
    \/ \E s \in Accounts : RunStartOk(s)
    \/ \E s \in Accounts : RunStartRaises(s)
    \/ \E s \in Accounts : RunMailCall(s)
    \/ \E s \in Accounts : RunMailAcquire(s)
    \/ \E s \in Accounts : RunFetchReturns(s)
    \/ \E s \in Accounts : RunFetchRaises(s)
    \/ \E s \in Accounts : RunCreateReturns(s)
    \/ \E s \in Accounts : RunCreateRaises(s)
    \/ \E s \in Accounts : RunStop(s)
    \/ \E s \in Accounts : RunRelease(s)
    \/ RunGather
FairMain ==
    /\ \A s \in Accounts :
            /\ WF_vars(RunEnter(s))
            /\ WF_vars(RunStartOk(s) \/ RunStartRaises(s))
            /\ WF_vars(RunMailCall(s) \/ RunCreateReturns(s) \/ RunCreateRaises(s))
            /\ WF_vars(RunMailAcquire(s))
            /\ WF_vars(RunFetchReturns(s) \/ RunFetchRaises(s))
            /\ WF_vars(RunStop(s))
            /\ WF_vars(RunRelease(s))
    /\ WF_vars(RunGather)
SpecMain == InitMain /\ [][NextMain]_vars /\ FairMain

\* One call of random_delay with any mode and profile tried.
InitDelay ==
    /\ DelayCalled
    /\ RetryIdle /\ BrowserIdle /\ TransitionIdle /\ GmailUnused /\ AccountIdle /\ TilesIdle /\ RunnerIdle /\ GridIdle /\ TypingIdle /\ LookupIdle
NextDelay ==
    \/ RandomDelay
    \/ DelayWake
SpecDelay == InitDelay /\ [][NextDelay]_vars

\* One call of Browser.select or Browser.find with any retry_config and
\* timeout tried.
InitLookup ==
    /\ LookupCalled
    /\ BrowserIdle /\ TransitionIdle /\ GmailUnused /\ AccountIdle /\ TilesIdle /\ RunnerIdle /\ GridIdle /\ DelayIdle /\ TypingIdle
NextLookup ==
    \/ LookupTick
    \/ LookupFound
    \/ LookupTimesOut
    \/ LookupRaises
    \/ RetryWake
SpecLookup == InitLookup /\ [][NextLookup]_vars

\* One call of human_type with any text tried.
InitTyping ==
    /\ TypingCalled
    /\ RetryIdle /\ BrowserIdle /\ TransitionIdle /\ GmailUnused /\ AccountIdle /\ TilesIdle /\ RunnerIdle /\ GridIdle /\ DelayIdle /\ LookupIdle
NextTyping ==
    \/ TypeSendKeys
    \/ TypeSendKeysRaises
    \/ TypeWake
    \/ TypeReturn
SpecTyping == InitTyping /\ [][NextTyping]_vars

\* A TileManager of any size, column count and screen tried, asked for the
\* positions of its slots.
InitGrid ==
    /\ \E max_tiles \in 1..MaxTiles, columns \in 1..MaxColumns,
          screen_width \in 1..MaxScreenWidth, screen_height \in 1..MaxScreenHeight :
            /\ TileManagerInit(max_tiles)
            /\ GridInit(max_tiles, columns, screen_width, screen_height)
    /\ RetryIdle /\ BrowserIdle /\ TransitionIdle /\ GmailUnused /\ AccountIdle /\ RunnerIdle /\ DelayIdle /\ TypingIdle /\ LookupIdle
NextGrid ==
    \/ \E slot \in 0..(MaxTiles - 1) : GetPosition(slot)
SpecGrid == InitGrid /\ [][NextGrid]_vars
NextRunner ==
    \/ \E s \in Tasks : RunEnter(s)
    \/ \E s \in Tasks : RunStartOk(s)
    \/ \E s \in Tasks : RunStartRaises(s)
    \/ \E s \in Tasks : RunCreateReturns(s)
    \/ \E s \in Tasks : RunCreateRaises(s)
    \/ \E s \in Tasks : RunStop(s)
    \/ \E s \in Tasks : RunRelease(s)
SpecRunner == InitRunner /\ [][NextRunner]_vars

\* The calls a test makes on task 1: get_existing_links, or one of the
\* wait_for_* variants with or without an existing set.
PollArgs ==
    [variant : WaitVariants, timeout : 1..MaxWaitTimeout, poll_interval : 1..MaxPollInterval]
PollExisting ==
    {NoExisting} \cup {[given |-> TRUE, val |-> e] : e \in SUBSET {"A", "B"}}

\* Task 1 makes one call on a mailbox that is empty or holds the message A.
PollCalled(timed) ==
    /\ mailbox \in {<< >>, <<"A">>}
    /\ \E call \in {"get_existing", "wait_for"} :
        \E args \in PollArgs, existing \in PollExisting :
            /\ max_connections = 1
            /\ semaphore = 1
            /\ th = [p \in Pollers |-> NoThread]
            /\ orphans = [connect |-> 0, open |-> 0]
            /\ f_ret = [p \in Pollers |-> NoReturn]
            /\ g_ret = [p \in Pollers |-> NoSet]
            /\ w_elapsed = [p \in Pollers |-> 0]
            /\ w_result = [p \in Pollers |-> NoResult]
            /\ stopwatch = [p \in Pollers |-> IF p = 1 /\ timed THEN 0 ELSE -1]
            /\ w_hist = [p \in Pollers |-> Unrecorded]
            /\ IF call = "get_existing"
               THEN /\ f_pc = [p \in Pollers |-> IF p = 1 THEN "acquire" ELSE "idle"]
                    /\ f_limit = [p \in Pollers |-> IF p = 1 THEN EXISTING_LIMIT ELSE 0]
                    /\ g_pc = [p \in Pollers |-> IF p = 1 THEN "await" ELSE "idle"]
                    /\ w_pc = [p \in Pollers |-> "idle"]
                    /\ w_args = [p \in Pollers |-> NoArgs]
                    /\ w_existing = [p \in Pollers |-> NoExisting]
               ELSE /\ f_pc = [p \in Pollers |-> "idle"]
                    /\ f_limit = [p \in Pollers |-> 0]
                    /\ g_pc = [p \in Pollers |-> "idle"]
                    /\ w_pc = [p \in Pollers |-> IF p = 1 THEN "start" ELSE "idle"]
                    /\ w_args = [p \in Pollers |-> IF p = 1 THEN args ELSE NoArgs]
                    /\ w_existing = [p \in Pollers |-> IF p = 1 THEN existing ELSE NoExisting]

\* One poller, messages arriving as it polls.
InitPoll == PollCalled(FALSE) /\ RetryIdle /\ BrowserIdle /\ TransitionIdle /\ AccountIdle /\ TilesIdle /\ RunnerIdle /\ GridIdle /\ DelayIdle /\ TypingIdle /\ LookupIdle
NextPoll == GmailStep \/ MailArrives
SpecPoll == InitPoll /\ [][NextPoll]_vars

\* One poller timed by its caller, on a mailbox nothing arrives in.
InitPollTimed == PollCalled(TRUE) /\ RetryIdle /\ BrowserIdle /\ TransitionIdle /\ AccountIdle /\ TilesIdle /\ RunnerIdle /\ GridIdle /\ DelayIdle /\ TypingIdle /\ LookupIdle
SpecPollTimed == InitPollTimed /\ [][GmailStep]_vars

\* What every poller of the gate specification calls wait_for_link with.
GateArgs ==
    [variant |-> "link", timeout |-> MaxWaitTimeout, poll_interval |-> MaxPollInterval]

\* Every task polls the one client, built with any max_connections tried,
\* for a link newer than the A the mailbox holds, with its own snapshot or
\* with the existing set {A}.
InitGate ==
    /\ mailbox = <<"A">>
    /\ max_connections \in 1..MaxConnectionsTried
    /\ semaphore = max_connections
    /\ f_pc = [p \in Pollers |-> "idle"]
    /\ f_limit = [p \in Pollers |-> 0]
    /\ f_ret = [p \in Pollers |-> NoReturn]
    /\ th = [p \in Pollers |-> NoThread]
    /\ orphans = [connect |-> 0, open |-> 0]
    /\ g_pc = [p \in Pollers |-> "idle"]
    /\ g_ret = [p \in Pollers |-> NoSet]
    /\ w_pc = [p \in Pollers |-> "start"]
    /\ w_args = [p \in Pollers |-> GateArgs]
    /\ w_existing \in [Pollers -> {NoExisting, [given |-> TRUE, val |-> {"A"}]}]
    /\ w_elapsed = [p \in Pollers |-> 0]
    /\ w_result = [p \in Pollers |-> NoResult]
    /\ stopwatch = [p \in Pollers |-> -1]
    /\ w_hist = [p \in Pollers |-> Unrecorded]
    /\ RetryIdle /\ BrowserIdle /\ TransitionIdle /\ AccountIdle /\ TilesIdle /\ RunnerIdle /\ GridIdle /\ DelayIdle /\ TypingIdle /\ LookupIdle
SpecGate == InitGate /\ [][GmailStep]_vars

\* Every task calls get_existing_links, again and again, on one client built
\* with any max_connections tried, and may be cancelled inside the fetch.
InitFetch ==
    /\ mailbox = <<"A">>
    /\ max_connections \in 1..MaxConnectionsTried
    /\ semaphore = max_connections
    /\ f_pc = [p \in Pollers |-> "acquire"]
    /\ f_limit = [p \in Pollers |-> EXISTING_LIMIT]
    /\ f_ret = [p \in Pollers |-> NoReturn]
    /\ th = [p \in Pollers |-> NoThread]
    /\ orphans = [connect |-> 0, open |-> 0]
    /\ g_pc = [p \in Pollers |-> "await"]
    /\ g_ret = [p \in Pollers |-> NoSet]
    /\ w_pc = [p \in Pollers |-> "idle"]
    /\ w_args = [p \in Pollers |-> NoArgs]
    /\ w_existing = [p \in Pollers |-> NoExisting]
    /\ w_elapsed = [p \in Pollers |-> 0]
    /\ w_result = [p \in Pollers |-> NoResult]
    /\ stopwatch = [p \in Pollers |-> -1]
    /\ w_hist = [p \in Pollers |-> Unrecorded]
    /\ RetryIdle /\ BrowserIdle /\ TransitionIdle /\ AccountIdle /\ TilesIdle /\ RunnerIdle /\ GridIdle /\ DelayIdle /\ TypingIdle /\ LookupIdle
NextFetch ==
    \/ \E p \in Pollers : GetExistingCall(p)
    \/ \E p \in Pollers : FetchAcquire(p)
    \/ \E p \in Pollers : ThreadConnectOk(p)
    \/ \E p \in Pollers : ThreadConnectRaises(p)
    \/ \E p \in Pollers : ThreadFetchOk(p)
    \/ \E p \in Pollers : ThreadFetchRaises(p)
    \/ \E p \in Pollers : FetchReturn(p)
    \/ \E p \in Pollers : FetchTimeout(p)
    \/ \E p \in Pollers : FetchCancelled(p)
    \/ OrphanConnectOk
    \/ OrphanConnectRaises
    \/ OrphanLogout
    \/ \E p \in Pollers : GetExistingReturn(p)
SpecFetch == InitFetch /\ [][NextFetch]_vars

\* The arguments both calls of the pair specification are given.
PairArgs == [timeout : {1, MaxWaitTimeout}, poll_interval : {MaxPollInterval}]

\* Task 1 calls wait_for_code and task 2 wait_for_code_optional with the
\* same arguments (no existing set, or {A}, or the {B} of a message yet to
\* come), on one client and a mailbox that is empty or holds A and that
\* messages arrive in; what each call sleeps and is given is recorded.
InitPair ==
    /\ mailbox \in {<< >>, <<"A">>}
    /\ max_connections = NumPollers
    /\ semaphore = NumPollers
    /\ f_pc = [p \in Pollers |-> "idle"]
    /\ f_limit = [p \in Pollers |-> 0]
    /\ f_ret = [p \in Pollers |-> NoReturn]
    /\ th = [p \in Pollers |-> NoThread]
    /\ orphans = [connect |-> 0, open |-> 0]
    /\ g_pc = [p \in Pollers |-> "idle"]
    /\ g_ret = [p \in Pollers |-> NoSet]
    /\ w_pc = [p \in Pollers |-> "start"]
    /\ \E args \in PairArgs :
            w_args = [p \in Pollers |-> [variant |-> IF p = 1 THEN "code" ELSE "code_optional",
                                         timeout |-> args.timeout, poll_interval |-> args.poll_interval]]
    /\ \E existing \in {NoExisting, [given |-> TRUE, val |-> {"A"}], [given |-> TRUE, val |-> {"B"}]} :
            w_existing = [p \in Pollers |-> existing]
    /\ w_elapsed = [p \in Pollers |-> 0]
    /\ w_result = [p \in Pollers |-> NoResult]
    /\ stopwatch = [p \in Pollers |-> -1]
    /\ w_hist = [p \in Pollers |-> << >>]
    /\ RetryIdle /\ BrowserIdle /\ TransitionIdle /\ AccountIdle /\ TilesIdle /\ RunnerIdle /\ GridIdle /\ DelayIdle /\ TypingIdle /\ LookupIdle

\* The steps of task p and of its worker thread.
PollerStep(p) ==
    \/ FetchAcquire(p) \/ ThreadConnectOk(p) \/ ThreadConnectRaises(p)
    \/ ThreadFetchOk(p) \/ ThreadFetchRaises(p) \/ FetchReturn(p) \/ FetchTimeout(p)
    \/ GetExistingReturn(p) \/ WfStart(p) \/ WfSnapshot(p) \/ WfLoop(p) \/ WfScan(p)

IsPrefix(q, r) == Len(q) <= Len(r) /\ q = SubSeq(r, 1, Len(q))

\* The two calls are run side by side on the same jitter draws and mailbox
\* behaviour: task 1 goes first, up to the next entry of its record ...
PairLead ==
    /\ Len(w_hist[1]) = Len(w_hist[2])
    /\ PollerStep(1)

\* ... and task 2 follows as long as it sleeps and is given the same.
PairFollow ==
    /\ Len(w_hist[2]) < Len(w_hist[1])
    /\ PollerStep(2)
    /\ IsPrefix(w_hist'[2], w_hist'[1])

NextPair ==
    \/ PairLead
    \/ PairFollow
    \/ MailArrives
    \/ OrphanConnectOk
    \/ OrphanConnectRaises
    \/ OrphanLogout
SpecPair == InitPair /\ [][NextPair]_vars

(***************************************************************************)
(* The retry/backoff executor                                               *)
(***************************************************************************)
\* The delay the RetryPolicy invariant gives the sleep after the failure of
\* attempt i: min(base * 2^i, max) when exponential, base otherwise.
PolicyDelay(i) ==
    IF r_cfg.exponential
    THEN (IF r_cfg.base_delay * Pow2(i) <= r_cfg.max_delay
          THEN r_cfg.base_delay * Pow2(i) ELSE r_cfg.max_delay)
    ELSE r_cfg.base_delay

\* The invocations so far failed, all of them.
AllFailed(calls) == \A i \in 1..Len(calls) : ~calls[i].ok

\* C2: an operation that raises on its first k <= max_retries invocations and
\* then succeeds makes retry() return that success value after exactly k + 1
\* invocations and exactly k sleeps, the sleep after the failure of attempt i
\* lasting min(base_delay * 2^i, max_delay) when exponential is set and
\* base_delay otherwise; k <= max_retries failures never make retry() raise.
C2_SucceedsAfterKFailures ==
    LET calls == Invocations(r_trace)
        slept == Sleeps(r_trace)
        k     == Len(calls) - 1
    IN  /\ r_pc = "returned" =>
            /\ k \in 0..r_cfg.max_retries
            /\ AllFailed(SubSeq(calls, 1, k)) /\ calls[k + 1].ok
            /\ r_result = [kind |-> "value", n |-> k + 1]
            /\ Len(slept) = k
            /\ \A i \in 0..(k - 1) : slept[i + 1].delay = PolicyDelay(i)
        /\ (AllFailed(calls) /\ Len(calls) <= r_cfg.max_retries) =>
                r_pc \in {"try", "sleep"}

\* C2's case: three failures, the third backoff cut to max_delay, then success.
C2_Witness ==
    /\ r_pc = "returned"
    /\ Len(Invocations(r_trace)) = 4
    /\ r_cfg.exponential
    /\ r_cfg.base_delay * Pow2(2) > r_cfg.max_delay
    /\ r_cfg.base_delay * Pow2(1) < r_cfg.max_delay

\* C3: an operation that raises on every invocation is invoked exactly
\* max_retries + 1 times, retry() sleeps exactly max_retries times, none of
\* them after the final failure, and then raises the last invocation's error.
C3_ExhaustionRaisesLastError ==
    LET calls == Invocations(r_trace)
        slept == Sleeps(r_trace)
    IN  /\ Len(calls) <= r_cfg.max_retries + 1
        /\ r_pc = "raised" =>
            /\ AllFailed(calls)
            /\ Len(calls) = r_cfg.max_retries + 1
            /\ Len(slept) = r_cfg.max_retries
            /\ r_trace[Len(r_trace)].kind = "call"
            /\ r_result = [kind |-> "error", n |-> r_cfg.max_retries + 1]
            /\ r_last_error = r_cfg.max_retries + 1
        /\ (AllFailed(calls) /\ Len(calls) = r_cfg.max_retries + 1) => r_pc = "raised"

\* C3's case: max_retries = 2 and three failures.
C3_Witness ==
    /\ r_pc = "raised"
    /\ r_cfg.max_retries = 2
    /\ Len(Invocations(r_trace)) = 3

\* C29: when retry() is given an on_retry observer, every failed invocation
\* other than the one of the final attempt is followed at once by one call
\* of the observer and then by the backoff sleep; the observer's calls are
\* numbered 1, 2, ... and carry max_retries and the error of the invocation
\* that just failed; nothing follows the failure of the final attempt or a
\* success, so the observer is not called then; without an observer
\* nothing is reported.
C29_ObserverOncePerRetriedFailure ==
    LET reports == Reports(r_trace) IN
    /\ ~r_cfg.on_retry => reports = << >>
    /\ r_cfg.on_retry =>
        /\ \A j \in DOMAIN reports :
                reports[j].attempt = j /\ reports[j].max_retries = r_cfg.max_retries
        /\ \A i \in DOMAIN r_trace :
                /\ r_trace[i].kind = "on_retry" =>
                        /\ i > 1 /\ r_trace[i - 1].kind = "call" /\ ~r_trace[i - 1].ok
                        /\ r_trace[i].error = r_trace[i - 1].n
                        /\ i < Len(r_trace) /\ r_trace[i + 1].kind = "sleep"
                /\ (r_trace[i].kind = "call" /\ ~r_trace[i].ok /\ r_trace[i].n <= r_cfg.max_retries) =>
                        i < Len(r_trace) /\ r_trace[i + 1].kind = "on_retry"
                /\ (r_trace[i].kind = "call" /\ (r_trace[i].ok \/ r_trace[i].n > r_cfg.max_retries)) =>
                        i = Len(r_trace)
        /\ r_pc = "raised" => Len(reports) = r_cfg.max_retries
        /\ r_pc = "returned" => Len(reports) = Len(Invocations(r_trace)) - 1

\* retry() with an observer gave up after the most retries tried: the
\* observer was called once for each attempt but the last.
C29_Witness ==
    /\ r_cfg.on_retry
    /\ r_pc = "raised"
    /\ r_cfg.max_retries = MaxRetriesTried
    /\ Len(Reports(r_trace)) = MaxRetriesTried
    /\ r_trace[Len(r_trace)].kind = "call"

(***************************************************************************)
(* Claims about the element lookups of the browser                           *)
(***************************************************************************)
Failed(i) == l_trace[i].how \in {"timeout", "error"}

\* C30: a lookup of Browser.select or Browser.find that exceeds its timeout
\* is a failure of that attempt only.  Every attempt ends within the timeout,
\* and one that timed out ran for exactly the timeout.  After a failed
\* attempt that is not the last of the max_retries + 1 allowed, the call goes
\* on to its next attempt; once an attempt finds the element, whatever came
\* before it, the call returns that element; the call fails only when
\* max_retries + 1 attempts have been made and all have failed.
C30_LookupTimeoutIsPerAttemptFailure ==
    l_kind # "none" =>
        LET n == Len(l_trace) IN
        /\ n <= r_cfg.max_retries + 1
        /\ \A i \in 1..n :
              /\ l_trace[i].after <= l_timeout
              /\ l_trace[i].how = "timeout" => l_trace[i].after = l_timeout
              /\ i < n => Failed(i)
        /\ l_clock <= l_timeout
        /\ (n > 0 /\ l_trace[n].how = "found") =>
              /\ r_pc = "returned"
              /\ r_result = [kind |-> "value", n |-> n]
        /\ (n > 0 /\ Failed(n) /\ n <= r_cfg.max_retries) => r_pc \in {"sleep", "try"}
        /\ r_pc = "returned" => (n > 0 /\ l_trace[n].how = "found")
        /\ r_pc = "raised" => (n = r_cfg.max_retries + 1 /\ \A i \in 1..n : Failed(i))
        /\ (n = r_cfg.max_retries + 1 /\ Failed(n)) => r_pc = "raised"

\* The lookup timed out on each of the first max_retries attempts, two at
\* least, and the last attempt allowed found the element, which the call
\* returned.
C30_Witness ==
    /\ l_kind = "find"
    /\ r_cfg.max_retries = 2
    /\ Len(l_trace) = 3
    /\ l_trace[1].how = "timeout" /\ l_trace[2].how = "timeout"
    /\ l_trace[3].how = "found"
    /\ l_timeout = MaxLookupTimeout
    /\ r_pc = "returned"

(***************************************************************************)
(* The state transition validator                                           *)
(***************************************************************************)
\* What the registered validator of state s says of location u; a state with
\* no registered validator counts as accepted.
RegisteredValidatorAccepts(s, u) ==
    /\ s = "HOMEPAGE" => "topps.com" \in u
    /\ s = "LOGIN_PAGE" => ("id.fanatics.com" \in u \/ "account/login" \in u)
    /\ s \in {"EMAIL_ENTRY", "REGISTRATION_FORM"} => "id.fanatics.com" \in u
    /\ s = "VERIFICATION_LINK" => "verify-email" \in u

\* C1: _transition_to sets the workflow state only to target_state, only
\* right after a validation of the location read once the action had run,
\* and only when the validator registered for target_state accepts that
\* location; otherwise the state is the one the call started from.
C1_StateSetOnlyWhenValidated ==
    /\ \A i \in DOMAIN tt_trace :
        tt_trace[i].kind = "set_state" =>
            /\ tt_trace[i].to = tt_target
            /\ i > 2
            /\ tt_trace[i - 1] = [kind |-> "validate", result |-> TRUE]
            /\ RegisteredValidatorAccepts(tt_target, tt_trace[i].url)
            /\ tt_trace[i - 2] = [kind |-> "action", ok |-> TRUE]
    /\ IF Assignments(tt_trace) = << >>
       THEN state = tt_state0
       ELSE state = tt_target

\* C1's case: the state advanced to LOGIN_PAGE, on the third attempt, after a
\* validation that had failed.
C1_Witness ==
    /\ tt_pc = "done"
    /\ tt_state0 = "CF_CHECK_1"
    /\ state = "LOGIN_PAGE"
    /\ tt_attempt = 2
    /\ \E i \in DOMAIN tt_trace : tt_trace[i].kind = "validate" /\ ~tt_trace[i].result

\* The trace cut into attempts: attempt a (from 0) starts at the a-th action.
AttemptFailed(trace, a) ==
    LET starts == {i \in DOMAIN trace : trace[i].kind = "action"}
        at == CHOOSE i \in starts : Cardinality({j \in starts : j < i}) = a
    IN  \/ ~trace[at].ok
        \/ \E j \in DOMAIN trace :
            /\ j > at
            /\ trace[j].kind = "validate" /\ ~trace[j].result
            /\ \A m \in (at + 1)..(j - 1) : trace[m].kind # "action"

\* C10: _transition_to makes at most max_retries + 1 attempts and returns
\* True at the first attempt whose action completes and whose validation
\* passes; when every attempt fails it has invoked the action exactly
\* max_retries + 1 times and slept the cooldown exactly max_retries times,
\* and it returns False with the state left as it was.
C10_BoundedAttempts ==
    LET n == Len(ActionCalls(tt_trace)) IN
    /\ n <= tt_max_retries + 1
    /\ tt_pc \in {"action", "delay", "cooldown", "done"}
    /\ tt_pc = "done" => tt_result \in {"True", "False"}
    /\ tt_result = "True" =>
        /\ tt_pc = "done"
        /\ \A a \in 0..(n - 2) : AttemptFailed(tt_trace, a)
        /\ ~AttemptFailed(tt_trace, n - 1)
        /\ Len(Cooldowns(tt_trace)) = n - 1
        /\ tt_trace[Len(tt_trace)].kind = "set_state"
    /\ tt_result = "False" =>
        /\ tt_pc = "done"
        /\ n = tt_max_retries + 1
        /\ \A a \in 0..(n - 1) : AttemptFailed(tt_trace, a)
        /\ Len(Cooldowns(tt_trace)) = tt_max_retries
        /\ state = tt_state0
    /\ (tt_pc \in {"action", "delay"}) =>
        \A a \in 0..(n - 2) : AttemptFailed(tt_trace, a)

\* C10's case: three attempts that all failed, one by an exception and one
\* by its validation, and False returned.
C10_Witness ==
    /\ tt_pc = "done"
    /\ tt_result = "False"
    /\ tt_max_retries = 2
    /\ \E i \in DOMAIN tt_trace : tt_trace[i] = [kind |-> "action", ok |-> FALSE]
    /\ \E i \in DOMAIN tt_trace : tt_trace[i].kind = "validate" /\ ~tt_trace[i].result

(***************************************************************************)
(* The mailbox poller                                                       *)
(***************************************************************************)
\* C4: at every moment the mailbox sessions that are open (connected and not
\* yet logged out) number at most max_connections.
C4_OpenSessionsBounded == OpenSessions <= max_connections

\* The items of the first n messages, newest first.
FetchedFrom(n) == Reverse(SubSeq(mailbox, 1, n))

\* C5: with A in the mailbox before polling and B arriving after it started
\* (and nothing else), get_existing, when its fetch completes before B
\* arrives, returns exactly {A}; wait_for called with existing = {A} returns
\* no item but B, and returns B in the round whose fetch brings B.
C5_ReturnsNewItemOnly ==
    /\ [](\A p \in Pollers :
            /\ (th[p].pc = "finished" /\ ~th[p].raised) =>
                    \E n \in 0..Len(mailbox) : th[p].links = FetchedFrom(n)
            /\ (g_pc[p] = "done" /\ g_ret[p].kind = "value" /\ ~g_ret[p].timed_out
                    /\ mailbox = <<"A">>) => g_ret[p].val = {"A"}
            /\ (w_existing[p] = [given |-> TRUE, val |-> {"A"}] /\ Range(mailbox) \subseteq {"A", "B"}
                    /\ w_result[p].kind = "item") => w_result[p].item = "B")
    /\ [][\A p \in Pollers :
            (/\ w_pc[p] = "fetch" /\ f_pc[p] = "done"
             /\ w_existing[p].val = {"A"}
             /\ Range(mailbox) \subseteq {"A", "B"}
             /\ "B" \in Range(f_ret[p].val)
             /\ w_pc'[p] # "fetch")
            => (w_pc'[p] = "done" /\ w_result'[p] = [kind |-> "item", item |-> "B"])]_vars

\* C5's case: A was there, B arrived, and wait_for(existing = {A}) returned B.
C5_Witness ==
    /\ mailbox = <<"A", "B">>
    /\ w_pc[1] = "done"
    /\ w_existing[1] = [given |-> TRUE, val |-> {"A"}]
    /\ w_result[1] = [kind |-> "item", item |-> "B"]

\* C7: with no new item ever arriving, wait_for ends with not-found no
\* earlier than timeout and no later than timeout + poll_interval + 2 seconds
\* after it was called, the time spent in fetches counted.
C7_NotFoundWithinTimeoutWindow ==
    \A p \in Pollers :
        (w_pc[p] = "done" /\ w_result[p].kind \in {"None", "TimeoutError"} /\ stopwatch[p] >= 0) =>
            /\ stopwatch[p] >= w_args[p].timeout
            /\ stopwatch[p] <= w_args[p].timeout + w_args[p].poll_interval + JITTER

\* C8: a fetch that exceeds its timeout yields [] and no error; the wait_for
\* round it belongs to ends without a result, and a loop whose elapsed is
\* below timeout goes on to its next sleep and fetch.
C8_TimedOutFetchIsEmptyRound ==
    /\ [](\A p \in Pollers :
            (f_pc[p] = "done" /\ f_ret[p].timed_out) =>
                (f_ret[p].kind = "value" /\ f_ret[p].val = << >>))
    /\ [][\A p \in Pollers :
            /\ (w_pc[p] = "fetch" /\ f_pc[p] = "done" /\ f_ret[p].timed_out /\ w_pc'[p] # "fetch")
                => (w_pc'[p] = "loop" /\ w_result'[p] = NoResult)
            /\ (w_pc[p] = "loop" /\ w_elapsed[p] < w_args[p].timeout /\ w_pc'[p] # "loop")
                => (w_pc'[p] = "fetch" /\ f_pc'[p] = "acquire" /\ w_result'[p] = NoResult)]_vars

\* C8's case: a poll's fetch has timed out, elapsed is still below timeout.
C8_Witness ==
    /\ w_pc[1] = "fetch"
    /\ f_pc[1] = "done"
    /\ f_ret[1].timed_out
    /\ w_elapsed[1] < w_args[1].timeout

\* C9: a fetch that throws during a wait_for poll is an empty round: wait_for
\* does not let the error through and goes on polling.
C9_ThrowingFetchIsEmptyRound ==
    [][\A p \in Pollers :
        (w_pc[p] = "fetch" /\ f_pc[p] = "done" /\ f_ret[p].kind = "raised" /\ w_pc'[p] # "fetch")
            => (w_pc'[p] = "loop" /\ w_result'[p] = NoResult)]_vars

(***************************************************************************)
(* create_account                                                           *)
(***************************************************************************)
\* C6: the verification link create_account navigates to is never one the
\* mailbox already held when the run's get_existing_links snapshot was
\* requested.
C6_NeverNavigatesToOldLink == Navigated \cap a_before = {}

\* The last event of a trace, or no event.
LastEvent(trace) == IF trace = << >> THEN [kind |-> "none"] ELSE trace[Len(trace)]

\* C11: in a create_account run a state with a registered validator becomes
\* the current state only in the step of _transition_to in which that
\* validator returned true on the current location.
C11_ValidatedStatesSetByValidator ==
    [][(state' # state /\ state' \in ValidatedStates) =>
            /\ tt_pc = "delay"
            /\ tt_target = state'
            /\ LastEvent(tt_trace').kind = "set_state"
            /\ RegisteredValidatorAccepts(state', LastEvent(tt_trace').url)]_vars

\* The declared order of the workflow states, FAILED apart.
StateOrder ==
    <<"INIT", "HOMEPAGE", "CF_CHECK_1", "LOGIN_PAGE", "CF_CHECK_2", "EMAIL_ENTRY",
      "CONTINUE_CLICKED", "REGISTRATION_FORM", "FORM_SUBMITTED", "WAITING_EMAIL",
      "VERIFICATION_LINK", "COMPLETE">>

\* The place of a state in the order; FAILED has none.
Rank(s) == IF s = "FAILED" THEN 0 ELSE CHOOSE i \in DOMAIN StateOrder : StateOrder[i] = s

\* C12: a create_account run starts from INIT, and each change of the state
\* inside the run moves it to the next state of the order, no state skipped,
\* or from a non-failed state to FAILED, after which it changes no more.
C12_StrictlyForward ==
    [][/\ (a_pc = "start" /\ a_pc' # "start") => state' = "INIT"
       /\ (a_pc # "start" /\ state' # state) =>
            /\ state # "FAILED"
            /\ state' = "FAILED" \/ Rank(state') = Rank(state) + 1]_vars

\* C12's case: a run that went through every state up to COMPLETE.
C12_Witness == a_ret.done /\ a_ret.ok /\ state = "COMPLETE"

\* C13: once the workflow state is FAILED or COMPLETE no operation on the
\* generator, another create_account call included, changes it.
C13_TerminalStatesAbsorbing ==
    [][(state = "FAILED" \/ state = "COMPLETE") => (state' = state)]_vars

\* C14: when create_account has returned, the workflow state is COMPLETE if
\* the success flag is true and FAILED if it is false.
C14_ReturnsInTerminalState ==
    a_ret.done => state = (IF a_ret.ok THEN "COMPLETE" ELSE "FAILED")

\* C15: when create_account returns success = false, the message carries
\* the name of the workflow state the run was in when the failure happened.
C15_FailureMessageNamesLastState ==
    [][(~a_ret.done /\ a_ret'.done /\ ~a_ret'.ok) => (a_ret'.state = state)]_vars

C17_LinkReceivedMeansSuccess ==
    (a_ret.done /\ a_verify_link # "") => a_ret = VerifiedRet

\* C17, amended: a run that reached FORM_SUBMITTED and whose wait_for_link
\* returned a link goes on to the VERIFICATION_LINK transition with that
\* link; it returns (true, "Account created and verified"), in state
\* COMPLETE, when that transition returned True, and (false, "Failed to
\* navigate to verification link") when it returned False.
C17_LinkReceivedAndVerifiedMeansSuccess ==
    /\ [](a_verify_link # "" =>
            \/ a_pc = "verify" /\ tt_target = "VERIFICATION_LINK"
            \/ a_pc = "returned" /\ a_ret.done)
    /\ [][/\ (a_pc = "wait_link" /\ w_pc[Me] = "done" /\ w_result[Me].kind = "item" /\ a_pc' # a_pc)
                => (state = "WAITING_EMAIL" /\ a_pc' = "verify" /\ a_verify_link' = w_result[Me].item)
          /\ (a_pc = "verify" /\ a_pc' # a_pc /\ tt_result = "True")
                => (a_ret' = Ret(TRUE, "Account created and verified", "") /\ state' = "COMPLETE")
          /\ (a_pc = "verify" /\ a_pc' # a_pc /\ tt_result = "False")
                => a_ret' = Ret(FALSE, "Failed to navigate to verification link", "")]_vars

\* C17's case: the new link B came, was navigated to, and the run succeeded.
C17_Witness ==
    /\ a_ret = Ret(TRUE, "Account created and verified", "")
    /\ a_verify_link = "B"
    /\ a_existing = {"A"}

\* The messages of the two challenge stages.
ChallengeMessages ==
    {"Cloudflare verification failed on homepage", "Cloudflare verification failed on login"}

\* C18: when the challenge is not cleared on any of the 3 attempts,
\* _verify_cf_with_retry returns False after exactly 3 attempts, the state
\* does not advance to the CF_CHECK state, and create_account returns
\* (false, message) with a message that names the stage and carries a
\* state name.
C18_ChallengeFailureReported ==
    /\ (cf_pc = "done" /\ ~cf_result) => cf_attempt + 1 = CF_MAX_ATTEMPTS
    /\ (a_ret.done /\ a_ret.text \in ChallengeMessages) =>
            /\ ~a_ret.ok
            /\ state = (IF a_ret.text = "Cloudflare verification failed on homepage"
                        THEN "HOMEPAGE" ELSE "LOGIN_PAGE")
            /\ a_ret.state \in ToppsState

(***************************************************************************)
(* TileManager                                                              *)
(***************************************************************************)
\* The slots sessions hold.
HeldSlots == {s_slot[s] : s \in {t \in Sessions : s_slot[t] # -1}}

\* C19: once the N slots acquired from a pool of size N have been released,
\* in any order, the pool is 0 .. N-1 in ascending order; the pool is
\* ascending at all times and acquire() hands out its lowest slot, so the
\* acquires that follow return 0, 1, 2, ...
C19_ReleaseRestoresSortedPool ==
    /\ [](HeldSlots = {} => tm_available = ListRange(tm_max_tiles))
    /\ [](\A i, j \in DOMAIN tm_available : i < j => tm_available[i] < tm_available[j])
    /\ [][\A s \in Sessions :
            (s_slot[s] = -1 /\ s_slot'[s] # -1 /\ tm_available # << >>) =>
                /\ \A x \in Range(tm_available) : s_slot'[s] <= x
                /\ tm_available = ListRange(tm_max_tiles) => s_slot'[s] = 0
                /\ tm_available' = Tail(tm_available)]_vars

\* C19's case: all the slots of the largest pool were out and came back
\* highest first; the pool is whole again.
C19_Witness ==
    /\ tm_max_tiles = MaxTiles
    /\ Len(tm_released) = MaxTiles
    /\ \A i \in DOMAIN tm_released : tm_released[i] = MaxTiles - i
    /\ HeldSlots = {}
    /\ Len(tm_available) = MaxTiles

\* C20: no slot is held by two sessions at once.
C20_SlotHeldByOneSession ==
    \A s, t \in Sessions : (s # t /\ s_slot[s] # -1) => s_slot[s] # s_slot[t]

\* C31: whatever integers release() was given between the acquires, the pool
\* is strictly ascending and holds only slots of 0 .. max_tiles - 1.
C31_PoolAscendingWithinRange ==
    /\ \A i, j \in DOMAIN tm_available : i < j => tm_available[i] < tm_available[j]
    /\ \A i \in DOMAIN tm_available : tm_available[i] \in 0..(tm_max_tiles - 1)

\* The sessions inside `async with semaphore`.
Active == {s \in Sessions : k_pc[s] \in {"start", "create", "gate", "fetch", "stop", "release"}}

\* C21: a task of create_single_account that has finished, with whatever
\* result (success, failure, or an exception of start or create_account
\* turned into a result), holds no tile slot, the step that finishes it puts
\* its slot back into the pool, and once every task has finished the pool
\* is again 0..max_tiles-1.
C21_SlotReleasedWhateverTheOutcome ==
    /\ [](\A s \in Tasks : k_pc[s] = "done" => s_slot[s] = -1 /\ k_result[s] \in Outcomes)
    /\ []((\A s \in Tasks : k_pc[s] = "done") => tm_available = ListRange(tm_max_tiles))
    /\ [][\A s \in Tasks : (k_pc[s] # "done" /\ k_pc'[s] = "done")
                => s_slot[s] \in Range(tm_available')]_vars

\* All tasks have finished, with more tasks than slots and every outcome
\* among them.
C21_Witness ==
    /\ \A s \in Tasks : k_pc[s] = "done"
    /\ k_max < NumTasks
    /\ \A o \in Outcomes : \E s \in Tasks : k_result[s] = o
    /\ tm_available = ListRange(tm_max_tiles)

\* C26: with the semaphore and the pool both sized max_concurrent, at most
\* max_concurrent sessions are active at once, every acquire() finds the
\* pool non-empty and so never hands out the fallback, and the active
\* sessions hold pairwise distinct slots of 0..max_concurrent-1.
C26_GateSizedToPoolKeepsSlotsDistinct ==
    /\ [](Cardinality(Active) <= k_max)
    /\ [](\A s \in Active : s_slot[s] \in 0..(k_max - 1))
    /\ [](\A s, t \in Active : s # t => s_slot[s] # s_slot[t])
    /\ [][\A s \in Tasks : (k_pc[s] = "queued" /\ k_pc'[s] = "start")
                => (tm_available # << >> /\ s_slot'[s] = Head(tm_available))]_vars

\* max_concurrent sessions are active while another task waits for the
\* semaphore, and the pool is empty.
C26_Witness ==
    /\ k_max > 1
    /\ Cardinality(Active) = k_max
    /\ \E s \in Tasks : k_pc[s] = "queued"
    /\ tm_available = << >>
\* Two rectangles share a pixel.
Overlap(a, b) ==
    /\ a.x < b.x + b.w /\ b.x < a.x + a.w
    /\ a.y < b.y + b.h /\ b.y < a.y + a.h

\* The tasks of main holding a permit of the mailbox gate.
Fetching == {s \in Accounts : k_pc[s] = "fetch"}

\* C32: the runner comes to its end whatever max_concurrent, the gate and
\* the outcomes are: every task of main is over with an AccountResult, holds
\* no tile, and every permit of the session semaphore and of the mailbox gate
\* is back; the gather has given main the results.  Until then the permits
\* out are exactly those of the tasks inside.
C32_RunnerCompletes ==
    /\ <>[](/\ k_gathered
            /\ \A s \in Accounts :
                    /\ k_pc[s] = "done"
                    /\ k_result[s] \in Outcomes
                    /\ s_slot[s] = -1
            /\ k_sem = k_max
            /\ semaphore = max_connections)
    /\ [](/\ k_sem + Cardinality(Active) = k_max
          /\ semaphore + Cardinality(Fetching) = max_connections
          /\ k_gathered => \A s \in Accounts : k_pc[s] = "done")

\* C32's case: two sessions at a time and one permit in the mailbox gate;
\* one task ended with an exception, one with success, every permit is back
\* and the gather is over.
C32_Witness ==
    /\ k_gathered
    /\ k_max = MaxConcurrentTried
    /\ max_connections = 1
    /\ \E s, t \in Accounts : k_result[s] = "exception" /\ k_result[t] = "success"
    /\ semaphore = 1

\* The slots get_position has been asked about.
Positioned == {slot \in DOMAIN p_ret : p_ret[slot] # NoPosition}

\* C22: for a TileManager with max_tiles >= 1 and columns >= 1 whose screen
\* is at least as wide and high as the grid has columns and rows, the
\* rectangles get_position returns for distinct slots of 0..max_tiles-1 do
\* not overlap, slot s is at column s mod columns and row s div columns, and
\* every rectangle is non-empty and lies inside the screen.
C22_PositionsDisjointRowMajorOnScreen ==
    (/\ tm_max_tiles >= 1 /\ p_args.columns >= 1
     /\ p_args.screen_width >= tm_columns /\ p_args.screen_height >= tm_rows)
    => /\ \A a, b \in Positioned : a # b => ~Overlap(p_ret[a], p_ret[b])
       /\ \A a \in Positioned :
            LET r == p_ret[a] IN
            /\ r.w >= 1 /\ r.h >= 1
            /\ r.x = (a % tm_columns) * r.w /\ r.y = (a \div tm_columns) * r.h
            /\ r.x = (a % p_args.columns) * r.w /\ r.y = (a \div p_args.columns) * r.h
            /\ r.x >= 0 /\ r.y >= 0
            /\ r.x + r.w <= p_args.screen_width /\ r.y + r.h <= p_args.screen_height

\* Three slots on a grid of two columns and two rows, on a screen whose
\* width the columns do not divide, have all been positioned.
C22_Witness ==
    /\ tm_max_tiles = 3 /\ tm_columns = 2 /\ tm_rows = 2
    /\ p_args.screen_width = 3 /\ p_args.screen_height >= 2
    /\ Positioned = 0..2
    /\ p_ret[2].y > 0
\* a <= b for fractions with positive denominators.
LeQ(a, b) == a.num * b.den <= b.num * a.den

\* C23: for every mode and profile with 0 <= min <= max and
\* speed_multiplier > 0, the duration random_delay sleeps is at least
\* min / speed, at most (max + extra) / speed and not negative, where
\* (min, max) is the profile's bound for the mode, or DELAYS["action"] for a
\* mode the profile does not know, and extra is the draw from
\* extra_delay_range that was added, which is 0 in mode "micro".
C23_SleepWithinBounds ==
    d_pc \in {"sleeping", "done"} =>
        LET b == IF d_mode \in DOMAIN d_profile.delays THEN d_profile.delays[d_mode] ELSE DELAYS_ACTION
            speed == d_profile.speed_multiplier
        IN  /\ LeQ([num |-> b.min, den |-> speed], d_slept)
            /\ LeQ(d_slept, [num |-> b.max + d_extra, den |-> speed])
            /\ d_slept.num >= 0
            /\ d_mode = "micro" => d_extra = 0
\* C24: what human_type has done so far is always a prefix of `send
\* text[0], sleep its delay, send text[1], sleep its delay, ...`: one
\* keystroke per character, in text order, each followed by its sleep
\* before the next is sent; when human_type returns every character has
\* been sent once and slept for, and for empty text nothing was sent and
\* nothing slept.
C24_SendThenSleepPerCharacter ==
    /\ Len(h_trace) <= 2 * Len(h_text)
    /\ \A k \in 1..Len(h_trace) :
            h_trace[k] = [kind |-> IF k % 2 = 1 THEN "send" ELSE "slept",
                          i |-> (k - 1) \div 2,
                          char |-> h_text[((k - 1) \div 2) + 1]]
    /\ h_pc = "send" => Len(h_trace) = 2 * h_i
    /\ h_pc = "sleeping" => (Len(h_trace) = 2 * h_i + 1 /\ h_delay.num > 0)
    /\ h_pc = "done" => Len(h_trace) = 2 * Len(h_text)

\* human_type has returned after typing a text of the longest length tried
\* that has a letter and a punctuation character.
C24_Witness ==
    /\ h_pc = "done"
    /\ Len(h_text) = MaxTextLen
    /\ \E j, k \in 1..Len(h_text) : h_text[j] = "a" /\ h_text[k] = "."
    /\ Len(h_trace) = 2 * MaxTextLen
\* The rounds a recorded call has slept for.
Rounds(p) == Cardinality({k \in DOMAIN w_hist[p] : w_hist[p][k].kind = "sleep"})

Holders == {p \in Pollers : f_pc[p] = "await"}

\* C27: the fetches holding a permit of the gate and the permits left
\* always add up to max_connections, however fetches have ended (a result,
\* the per-fetch timeout, an error of the mailbox, a cancellation): never
\* more than max_connections fetches hold one, and when no fetch is in
\* progress all max_connections permits are there.
C27_PermitsConserved ==
    /\ semaphore >= 0
    /\ Cardinality(Holders) <= max_connections
    /\ semaphore + Cardinality(Holders) = max_connections
    /\ Holders = {} => semaphore = max_connections

\* With one permit for two tasks, one fetch has timed out and another has
\* let an error through, no fetch is in progress and the permit is back.
C27_Witness ==
    /\ max_connections = 1
    /\ Holders = {}
    /\ semaphore = 1
    /\ \E p, q \in Pollers : g_ret[p].timed_out /\ g_ret[q].kind = "raised"
\* The recorded calls of wait_for.
Recorded == {p \in Pollers : w_hist[p] # Unrecorded}

\* The places of the items of a fetch result that are not in existing.
NewPlaces(links, existing) == {i \in DOMAIN links : links[i] \notin existing}

\* The least of a non-empty set of numbers.
Least(S) == CHOOSE i \in S : \A j \in S : i <= j

\* C28: a call of wait_for never returns an item of the existing set it was
\* given (or took as its snapshot); in every round it sleeps first and then
\* fetches, the fetch giving the items newest message first; it returns in
\* the first round whose fetch result holds an item not in existing, and
\* what it returns is the first such item of that result.
C28_FirstNewItemOfFirstRoundWithOne ==
    \A p \in Recorded :
        LET h == w_hist[p]
            existing == w_existing[p].val
        IN  /\ w_result[p].kind = "item" =>
                    /\ w_result[p].item \notin existing
                    /\ h # << >> /\ h[Len(h)].kind = "fetch"
            /\ \A k \in DOMAIN h :
                    h[k].kind = "fetch" =>
                        /\ k > 1 /\ h[k - 1].kind = "sleep"
                        /\ \E n \in 0..Len(mailbox) : h[k].ret.val = FetchedFrom(n)
                        /\ (h[k].ret.kind = "value" /\ NewPlaces(h[k].ret.val, existing) # {}) =>
                                /\ k = Len(h)
                                /\ w_pc[p] = "done"
                                /\ w_result[p] = [kind |-> "item",
                                                   item |-> h[k].ret.val[Least(NewPlaces(h[k].ret.val, existing))]]
                        /\ (h[k].ret.kind = "value" /\ NewPlaces(h[k].ret.val, existing) = {}) =>
                                ~(k = Len(h) /\ w_pc[p] = "done")
            /\ \A k \in DOMAIN h :
                    (h[k].kind = "sleep" /\ k < Len(h)) => h[k + 1].kind = "fetch"

\* A call given the existing set {B} slept and fetched nothing new, slept
\* again, was given B and A, newest first, and returned A.
C28_Witness ==
    \E p \in Recorded :
        /\ w_pc[p] = "done"
        /\ w_existing[p] = [given |-> TRUE, val |-> {"B"}]
        /\ Rounds(p) >= 2
        /\ w_hist[p][Len(w_hist[p])].ret.val = <<"B", "A">>
        /\ w_result[p] = [kind |-> "item", item |-> "A"]
====
